---- MODULE Spec2Model ----
(***************************************************************************)
(* SpatialMind frontend: the reducer-based client store (appReducer and    *)
(* its jobReducer / uiReducer / systemReducer slices), the active-job      *)
(* message merge (updateActiveJobMessage) and the WebSocketService         *)
(* connection managers that feed server events into the store.             *)
(***************************************************************************)
EXTENDS Integers, Sequences, FiniteSets, TLC

(***************************************************************************)
(* Bounds of the model.                                                    *)
(***************************************************************************)
MaxJobs == 2
MaxFragments == 2
MaxLayers == 2
MaxSockets == 8
MaxLegacySockets == 4
MaxMsgSockets == 2
MaxFrames == 2
MaxNotes == 1
MaxToasts == 1
MaxFetches == 2
MaxOrphans == 1
MaxLayerJobs == 1

(***************************************************************************)
(* JavaScript values.  null and undefined are strings; a nullable object   *)
(* is the empty sequence (null) or a one-element sequence (the object).    *)
(***************************************************************************)
Null == "null"
Undefined == "undefined"
None == <<>>
Some(x) == <<x>>

JobIds == {"J" \o ToString(i) : i \in 1..MaxJobs}
Contents == {"A", "B"}
LayerNames == {"flood_zones"}

VARIABLES
  state,        \* the store snapshot held by useReducer(appReducer, initialState)
  issued,       \* job ids the query endpoint has returned so far
  submitted,    \* queries submitted from the chat window so far
  ws,           \* the WebSocketService singleton of socket/websocket.js
  sockets,      \* readyState of every WebSocket the service has created
  timers,       \* pending setTimeout reconnect timers
  gaveUp,       \* how the last close ended the retries (history)
  out,          \* what the last step of the service ran, sent and dispatched
  pendingBlobs, \* Blob frames whose text() promise has not resolved yet
  received,     \* the frames the transport delivered, in order (history)
  delivered,    \* the frames handed to this.dispatcher, in order (history)
  lg,           \* the WebSocketService singleton of services/websocket.js
  lgSockets,    \* readyState of every WebSocket that service has created
  lgTimers,     \* its pending reconnect timers
  lgTimeouts,   \* its pending connection-timeout timers
  lgStore,      \* the store its store.actions dispatch into
  views,        \* the mounted DynamicGeoJSONLayer components, by layerId
  orphans,      \* pending fetchData timers of unmounted components, by layerId
  fetches,      \* data fetches issued for a layer since it was registered (history)
  deleting      \* the handleRemove calls awaiting the server: isLayerOnMap as
                \* the call's closure holds it, by dataset id

msgVars == <<pendingBlobs, received, delivered>>
wsVars == <<ws, sockets, timers, gaveUp, out, msgVars>>
lgVars == <<lg, lgSockets, lgTimers, lgTimeouts, lgStore>>
storeVars == <<state, issued, submitted>>
mapVars == <<views, orphans, fetches, deleting>>

(***************************************************************************)
(* initialState                                                            *)
(***************************************************************************)
initialState ==
  [ sessionId            |-> Null,
    websocketConnected   |-> FALSE,
    error                |-> None,
    notifications        |-> <<>>,
    messages             |-> <<>>,
    activeJobId          |-> Null,
    isAgentLoading       |-> FALSE,
    agentStatusMessage   |-> "Processing...",
    uploadedDatasets     |-> <<>>,
    results              |-> None,
    mapLayers            |-> <<>>,
    pendingLayersToAdd   |-> None,
    pendingDatasetUpdate |-> None ]

(***************************************************************************)
(* utils/updateActiveJobMessage.js                                         *)
(***************************************************************************)
Max(S) == CHOOSE x \in S : \A y \in S : y <= x

\* JavaScript truthiness of a string-or-null value (if (!x) ...).
Truthy(x) == x # Null /\ x # Undefined /\ x # ""

\* findLastJobMessage scanning from the front and not comparing the job id
findLastJobMessage_firstAssistant(messages, jobId) ==
  LET I == { i \in 1..Len(messages) : messages[i].type = "assistant" }
  IN  IF I = {} THEN -1 ELSE CHOOSE i \in I : \A k \in I : i <= k

\* Index of the most recent assistant message of jobId; -1 when there is
\* none (indices are 1-based here, 0-based in the source).
findLastJobMessage(messages, jobId) ==
  LET I == { i \in 1..Len(messages) :
               messages[i].type = "assistant" /\ messages[i].jobId = jobId }
  IN  IF I = {} THEN -1 ELSE Max(I)

\* JSON.parse(JSON.stringify(o)) of a flat object: a property whose value
\* is undefined is not serialised, so it is absent from the copy.
JsonCloneObj(o) == [ k \in { f \in DOMAIN o : o[f] # Undefined } |-> o[k] ]

\* JSON.parse(JSON.stringify(message)) of an assistant message.
JsonClone(m) ==
  [ id |-> m.id, type |-> m.type, jobId |-> m.jobId,
    cot |-> [ k \in DOMAIN m.cot |-> JsonCloneObj(m.cot[k]) ] ]

\* the spread written the other way round: { ...cotPayload, ...cot }
Spread_oldWins(cot, cotPayload) == cot @@ cotPayload

\* { ...cot, ...cotPayload }: keys of cotPayload win, other keys are kept.
Spread(cot, cotPayload) == cotPayload @@ cot

\* a message is made for the fragment when none is found
updateActiveJobMessage_createsMessage(s, cotPayload) ==
  LET index == findLastJobMessage(s.messages, s.activeJobId) IN
  IF index = -1
  THEN [ s EXCEPT !.messages = Append(@,
           [ id |-> "asst_new", type |-> "assistant", jobId |-> s.activeJobId,
             cot |-> cotPayload ]) ]
  ELSE LET updatedMessage == JsonClone(s.messages[index]) IN
       [ s EXCEPT !.messages[index] =
           [ updatedMessage EXCEPT !.cot = Spread(updatedMessage.cot, cotPayload) ] ]

updateActiveJobMessage(s, cotPayload) ==
  IF ~Truthy(s.activeJobId) THEN s
  ELSE LET index == findLastJobMessage(s.messages, s.activeJobId) IN
       IF index = -1 THEN s
       ELSE LET updatedMessage == JsonClone(s.messages[index]) IN
            [ s EXCEPT !.messages[index] =
                [ updatedMessage EXCEPT !.cot = Spread(updatedMessage.cot, cotPayload) ] ]

(***************************************************************************)
(* String case conversion over the type names that occur.                  *)
(***************************************************************************)
UpperOf ==
  [ chain_of_thought   |-> "CHAIN_OF_THOUGHT",
    action             |-> "ACTION",
    observation        |-> "OBSERVATION",
    status_update      |-> "STATUS_UPDATE",
    final_status       |-> "FINAL_STATUS",
    job_complete       |-> "JOB_COMPLETE",
    ingestion_complete |-> "INGESTION_COMPLETE",
    ingestion_failed   |-> "INGESTION_FAILED",
    cot_step           |-> "COT_STEP",
    tool_execution     |-> "TOOL_EXECUTION",
    error              |-> "ERROR",
    ping               |-> "PING",
    heartbeat          |-> "HEARTBEAT",
    add_dataset        |-> "ADD_DATASET",
    clear_chat         |-> "CLEAR_CHAT" ]

toUpperCase(t) == UpperOf[t]
toLowerCase(T) == CHOOSE t \in DOMAIN UpperOf : UpperOf[t] = T

EmptyObject == [ k \in {} |-> Null ]

\* a || b on strings
OrElse(a, b) == IF Truthy(a) THEN a ELSE b

(***************************************************************************)
(* store/jobReducer.js                                                     *)
(***************************************************************************)
\* the layer id taken from the layer name alone
pendingLayer_nameOnly(activeJobId, layer) ==
  [ layerId      |-> layer.layer_name,
    name         |-> layer.layer_name,
    type         |-> "analysis_result",
    visible      |-> TRUE,
    dataUrl      |-> layer.url,
    featureCount |-> layer.feature_count,
    bbox         |-> layer.bbox,
    style        |-> IF layer.style \in {Null, Undefined, ""} THEN "default" ELSE layer.style,
    datasetId    |-> activeJobId ]

\* layers.map(layer => ({...})) of JOB_COMPLETE
pendingLayer(activeJobId, layer) ==
  [ layerId      |-> activeJobId \o "-" \o layer.layer_name,
    name         |-> layer.layer_name,
    type         |-> "analysis_result",
    visible      |-> TRUE,
    dataUrl      |-> layer.url,
    featureCount |-> layer.feature_count,
    bbox         |-> layer.bbox,
    style        |-> OrElse(layer.style, "default"),
    datasetId    |-> activeJobId ]

\* every ingestion event taken for a completion
ingestionStatus_alwaysProcessed(type) == "processed"

\* action.type === 'INGESTION_COMPLETE' ? 'processed' : 'ingestion_failed'
ingestionStatus(type) ==
  IF type = "INGESTION_COMPLETE" THEN "processed" ELSE "ingestion_failed"

jobReducer(s, a) ==
  CASE a.type = "ADD_USER_MESSAGE" ->
         [ s EXCEPT !.messages = Append(@,
             [ id |-> "user_now", type |-> "user", content |-> a.payload.content ]) ]
    [] a.type = "START_JOB" ->
         [ s EXCEPT !.isAgentLoading = TRUE,
                    !.activeJobId = a.payload.jobId,
                    !.agentStatusMessage = "Agent is preparing...",
                    !.messages = Append(@,
                      [ id |-> "asst_" \o a.payload.jobId, type |-> "assistant",
                        jobId |-> a.payload.jobId, cot |-> EmptyObject ]) ]
    [] a.type = "STATUS_UPDATE" ->
         [ updateActiveJobMessage(s, [ status_update |-> a.payload ])
             EXCEPT !.agentStatusMessage = a.payload.message ]
    [] a.type \in {"CHAIN_OF_THOUGHT", "ACTION", "OBSERVATION"} ->
         updateActiveJobMessage(s, toLowerCase(a.type) :> a.payload)
    [] a.type = "FINAL_STATUS" ->
         [ updateActiveJobMessage(s, [ final_status |-> a.payload ])
             EXCEPT !.isAgentLoading = FALSE, !.activeJobId = Null ]
    [] a.type = "JOB_COMPLETE" ->
         LET results == a.payload.results
             message == a.payload.message
             analysis_summary == a.payload.analysis_summary
             layers == IF results = None THEN <<>> ELSE results[1].layers
         IN  [ updateActiveJobMessage(s,
                 [ final_status |->
                     [ status |-> "completed",
                       message |-> OrElse(message, "Job completed successfully."),
                       analysis_summary |-> analysis_summary ] ])
               EXCEPT !.isAgentLoading = FALSE,
                      !.activeJobId = Null,
                      !.results = Some([ jobId |-> s.activeJobId,
                                         summary |-> message,
                                         layers |-> layers,
                                         analysis_summary |-> analysis_summary ]),
                      !.pendingLayersToAdd =
                        Some([ i \in 1..Len(layers) |-> pendingLayer(s.activeJobId, layers[i]) ]) ]
    [] a.type \in {"INGESTION_COMPLETE", "INGESTION_FAILED"} ->
         LET ingestionPayload ==
               IF "ingestion_complete" \in DOMAIN a.payload THEN a.payload.ingestion_complete
               ELSE IF "ingestion_failed" \in DOMAIN a.payload THEN a.payload.ingestion_failed
               ELSE a.payload
             datasetId ==
               OrElse(ingestionPayload.dataset_id,
                      IF "layer" \in DOMAIN ingestionPayload
                      THEN ingestionPayload.layer.layer_id ELSE Undefined)
             jobId == OrElse(ingestionPayload.job_id, datasetId)
         IN  IF ~Truthy(datasetId) THEN s
             ELSE [ s EXCEPT
                      !.messages = Append(@,
                        [ id |-> "ingest_" \o jobId, type |-> "assistant", jobId |-> jobId,
                          cot |-> toLowerCase(a.type) :> ingestionPayload ]),
                      !.pendingDatasetUpdate =
                        Some([ datasetId |-> datasetId,
                               status |-> ingestionStatus(a.type) ]) ]
    [] OTHER -> s

(***************************************************************************)
(* store/uiReducer.js                                                      *)
(***************************************************************************)
RECURSIVE FilterSeq(_, _)
\* Array.prototype.filter with the predicate given as the set of kept values
FilterSeq(seq, keep) ==
  IF seq = <<>> THEN <<>>
  ELSE (IF Head(seq) \in keep THEN <<Head(seq)>> ELSE <<>>) \o FilterSeq(Tail(seq), keep)

\* the duplicate test left out: no dataset is ever found
someDataset_never(uploadedDatasets, dataset) == FALSE

\* state.uploadedDatasets.some(d => d.dataset_id === action.payload.dataset.dataset_id)
someDataset(uploadedDatasets, dataset) ==
  \E i \in 1..Len(uploadedDatasets) : uploadedDatasets[i].dataset_id = dataset.dataset_id

\* the duplicate test left out: no layer is ever found
someLayer_never(mapLayers, layer) == FALSE

\* state.mapLayers.some(l => l.layerId === action.payload.layer.layerId)
someLayer(mapLayers, layer) ==
  \E i \in 1..Len(mapLayers) : mapLayers[i].layerId = layer.layerId

\* layers.findIndex(l => l.layerId === id), 1-based, -1 when there is none
findIndex(layers, id) ==
  LET I == { i \in 1..Len(layers) : layers[i].layerId = id }
  IN  IF I = {} THEN -1 ELSE CHOOSE i \in I : \A k \in I : i <= k

\* layers.splice(index, 1)
spliceOut(layers, index) ==
  SubSeq(layers, 1, index - 1) \o SubSeq(layers, index + 1, Len(layers))

\* the item put after the element at index instead of before it
spliceIn_after(layers, index, item) ==
  SubSeq(layers, 1, index) \o <<item>> \o SubSeq(layers, index + 1, Len(layers))

\* layers.splice(index, 0, item)
spliceIn(layers, index, item) ==
  SubSeq(layers, 1, index - 1) \o <<item>> \o SubSeq(layers, index, Len(layers))

uiReducer(s, a) ==
  CASE a.type = "ADD_DATASET" ->
         IF someDataset(s.uploadedDatasets, a.payload.dataset)
         THEN s
         ELSE [ s EXCEPT !.uploadedDatasets = Append(@, a.payload.dataset) ]
    [] a.type = "REMOVE_DATASET" ->
         [ s EXCEPT !.uploadedDatasets =
             FilterSeq(@, { d \in { s.uploadedDatasets[i] : i \in 1..Len(s.uploadedDatasets) } :
                              d.dataset_id # a.payload.datasetId }) ]
    [] a.type = "UPDATE_DATASET_STATUS" ->
         [ s EXCEPT !.uploadedDatasets =
             [ i \in 1..Len(@) |->
                 IF @[i].dataset_id = a.payload.datasetId
                 THEN [ @[i] EXCEPT !.status = a.payload.status ] ELSE @[i] ] ]
    [] a.type = "ADD_MAP_LAYER" ->
         IF someLayer(s.mapLayers, a.payload.layer)
         THEN s
         ELSE [ s EXCEPT !.mapLayers = Append(@, a.payload.layer) ]
    [] a.type = "REORDER_MAP_LAYERS" ->
         LET sourceIndex == findIndex(s.mapLayers, a.payload.sourceId) IN
         IF sourceIndex = -1 THEN s
         ELSE LET removed == s.mapLayers[sourceIndex]
                  layers == spliceOut(s.mapLayers, sourceIndex)
                  targetIndex == IF Truthy(a.payload.targetId)
                                 THEN findIndex(layers, a.payload.targetId) ELSE -1
              IN  [ s EXCEPT !.mapLayers =
                      IF targetIndex # -1 THEN spliceIn(layers, targetIndex, removed)
                      ELSE Append(layers, removed) ]
    [] a.type = "REMOVE_MAP_LAYER" ->
         [ s EXCEPT !.mapLayers =
             FilterSeq(@, { l \in { s.mapLayers[i] : i \in 1..Len(s.mapLayers) } :
                              l.layerId # a.payload.layerId }) ]
    [] a.type = "TOGGLE_LAYER_VISIBILITY" ->
         [ s EXCEPT !.mapLayers =
             [ i \in 1..Len(@) |->
                 IF @[i].layerId = a.payload.layerId
                 THEN [ @[i] EXCEPT !.visible = ~@ ] ELSE @[i] ] ]
    [] a.type = "SET_RESULTS" ->
         [ s EXCEPT !.results = a.payload.results ]
    [] OTHER -> s

(***************************************************************************)
(* store/systemReducer.js                                                  *)
(***************************************************************************)
\* Date.now() at the dispatch of a notification: a clock value later than
\* the one of every notification still shown
DateNow(s) ==
  1 + Max({0} \cup { s.notifications[i].id : i \in 1..Len(s.notifications) })

systemReducer(s, a) ==
  CASE a.type = "SET_SESSION_ID" -> [ s EXCEPT !.sessionId = a.payload ]
    [] a.type = "ADD_NOTIFICATION" ->
         \* { id: `notif_${Date.now()}`, ...action.payload.notification }
         [ s EXCEPT !.notifications = Append(@,
             a.payload.notification @@ [ id |-> DateNow(s) ]) ]
    [] a.type = "REMOVE_NOTIFICATION" ->
         [ s EXCEPT !.notifications =
             FilterSeq(@, { n \in { s.notifications[i] : i \in 1..Len(s.notifications) } :
                              n.id # a.payload.id }) ]
    [] a.type = "SET_WEBSOCKET_CONNECTED" -> [ s EXCEPT !.websocketConnected = a.payload ]
    [] a.type = "SET_ERROR" -> [ s EXCEPT !.error = Some(a.payload), !.isAgentLoading = FALSE ]
    [] a.type = "CLEAR_ERROR" -> [ s EXCEPT !.error = None ]
    [] OTHER -> s

(***************************************************************************)
(* store/appReducer.js                                                     *)
(***************************************************************************)
RECURSIVE addLayers(_, _)
\* layers.forEach(layer => updatedState = uiReducer(updatedState, ADD_MAP_LAYER))
addLayers(s, layers) ==
  IF layers = <<>> THEN s
  ELSE addLayers(uiReducer(s, [ type |-> "ADD_MAP_LAYER", payload |-> [ layer |-> Head(layers) ] ]),
                 Tail(layers))

\* The TypeError of uiReducer: the callback of some(), run for each held
\* element, reads action.payload.dataset.dataset_id, or
\* action.payload.layer.layerId, of a payload that has no such object.
uiReducerThrows(s, a) ==
  CASE a.type = "ADD_DATASET" ->
         Len(s.uploadedDatasets) > 0 /\ "dataset" \notin DOMAIN a.payload
    [] a.type = "ADD_MAP_LAYER" ->
         Len(s.mapLayers) > 0 /\ "layer" \notin DOMAIN a.payload
    [] OTHER -> FALSE

\* reducers.reduce(...) throws when uiReducer, given what jobReducer
\* returned, throws
appReducerThrows(s, a) ==
  a.type # "CLEAR_CHAT" /\ uiReducerThrows(jobReducer(s, a), a)

\* the case labels of jobReducer, uiReducer and systemReducer
SliceTypes ==
  { "ADD_USER_MESSAGE", "START_JOB", "STATUS_UPDATE", "CHAIN_OF_THOUGHT", "ACTION",
    "OBSERVATION", "FINAL_STATUS", "JOB_COMPLETE", "INGESTION_COMPLETE", "INGESTION_FAILED",
    "ADD_DATASET", "REMOVE_DATASET", "UPDATE_DATASET_STATUS", "ADD_MAP_LAYER",
    "REMOVE_MAP_LAYER", "TOGGLE_LAYER_VISIBILITY", "REORDER_MAP_LAYERS", "SET_MAP_VIEW",
    "SET_RESULTS", "SET_SESSION_ID", "SYSTEM_CONNECTED", "SET_WEBSOCKET_CONNECTED",
    "SET_ERROR", "CLEAR_ERROR", "ADD_NOTIFICATION", "REMOVE_NOTIFICATION" }

\* CLEAR_CHAT resets the uploaded datasets too
appReducer_clearsDatasets(s, a) ==
  IF a.type = "CLEAR_CHAT"
  THEN [ s EXCEPT !.error = initialState.error,
                  !.notifications = initialState.notifications,
                  !.messages = initialState.messages,
                  !.activeJobId = initialState.activeJobId,
                  !.isAgentLoading = initialState.isAgentLoading,
                  !.agentStatusMessage = initialState.agentStatusMessage,
                  !.results = initialState.results,
                  !.mapLayers = initialState.mapLayers,
                  !.uploadedDatasets = initialState.uploadedDatasets ]
  ELSE LET nextState == systemReducer(uiReducer(jobReducer(s, a), a), a) IN
       IF nextState.pendingDatasetUpdate # None
       THEN [ uiReducer(nextState,
                [ type |-> "UPDATE_DATASET_STATUS",
                  payload |-> nextState.pendingDatasetUpdate[1] ])
              EXCEPT !.pendingDatasetUpdate = None ]
       ELSE
       IF nextState.pendingLayersToAdd # None /\ Len(nextState.pendingLayersToAdd[1]) > 0
       THEN addLayers([ nextState EXCEPT !.pendingLayersToAdd = None ],
                      nextState.pendingLayersToAdd[1])
       ELSE nextState

\* the reset is made for every type no slice recognizes, not for CLEAR_CHAT alone
appReducer_resetsOnUnrecognized(s, a) ==
  IF a.type \notin SliceTypes
  THEN [ s EXCEPT !.error = initialState.error,
                  !.notifications = initialState.notifications,
                  !.messages = initialState.messages,
                  !.activeJobId = initialState.activeJobId,
                  !.isAgentLoading = initialState.isAgentLoading,
                  !.agentStatusMessage = initialState.agentStatusMessage,
                  !.results = initialState.results,
                  !.mapLayers = initialState.mapLayers ]
  ELSE LET nextState == systemReducer(uiReducer(jobReducer(s, a), a), a) IN
       IF nextState.pendingDatasetUpdate # None
       THEN [ uiReducer(nextState,
                [ type |-> "UPDATE_DATASET_STATUS",
                  payload |-> nextState.pendingDatasetUpdate[1] ])
              EXCEPT !.pendingDatasetUpdate = None ]
       ELSE
       IF nextState.pendingLayersToAdd # None /\ Len(nextState.pendingLayersToAdd[1]) > 0
       THEN addLayers([ nextState EXCEPT !.pendingLayersToAdd = None ],
                      nextState.pendingLayersToAdd[1])
       ELSE nextState

appReducer(s, a) ==
  IF a.type = "CLEAR_CHAT"
  THEN [ s EXCEPT !.error = initialState.error,
                  !.notifications = initialState.notifications,
                  !.messages = initialState.messages,
                  !.activeJobId = initialState.activeJobId,
                  !.isAgentLoading = initialState.isAgentLoading,
                  !.agentStatusMessage = initialState.agentStatusMessage,
                  !.results = initialState.results,
                  !.mapLayers = initialState.mapLayers ]
  ELSE LET nextState == systemReducer(uiReducer(jobReducer(s, a), a), a) IN
       IF nextState.pendingDatasetUpdate # None
       THEN [ uiReducer(nextState,
                [ type |-> "UPDATE_DATASET_STATUS",
                  payload |-> nextState.pendingDatasetUpdate[1] ])
              EXCEPT !.pendingDatasetUpdate = None ]
       ELSE
       IF nextState.pendingLayersToAdd # None /\ Len(nextState.pendingLayersToAdd[1]) > 0
       THEN addLayers([ nextState EXCEPT !.pendingLayersToAdd = None ],
                      nextState.pendingLayersToAdd[1])
       ELSE nextState

(***************************************************************************)
(* Server events and facade operations reaching dispatch.                  *)
(***************************************************************************)
\* const { type, ...payload } = message;
\* formattedAction = { type: type.toUpperCase(), payload }
formattedAction(message) ==
  [ type    |-> toUpperCase(message.type),
    payload |-> [ k \in DOMAIN message \ {"type"} |-> message[k] ] ]

\* dispatch(action) of useReducer(appReducer, initialState)
Dispatch(a) == state' = appReducer(state, a)

FragmentTypes == {"chain_of_thought", "action", "observation"}

\* Output layer descriptors a job_complete event can carry.
LayerLists ==
  UNION { [ 1..n -> { [ layer_name |-> nm, url |-> "/results/" \o nm,
                        feature_count |-> "10", bbox |-> Undefined, style |-> Undefined ]
                      : nm \in LayerNames } ] : n \in 0..MaxLayers }

\* Inbound socket messages of the streamed job events.
FragmentMessages(jobs) ==
  { [ type |-> t, job_id |-> j, content |-> c ] :
      t \in FragmentTypes, j \in jobs, c \in Contents }

StatusUpdateMessages(jobs) ==
  { [ type |-> "status_update", job_id |-> j, message |-> "Working..." ] : j \in jobs }

FinalStatusMessages(jobs) ==
  { [ type |-> "final_status", job_id |-> j, status |-> st, message |-> "done" ] :
      j \in jobs, st \in {"failed"} }

\* cot_step events as the backend documents them (three steps per job)
CotStepMessages(jobs) ==
  { [ type |-> "cot_step", job_id |-> j, step_number |-> ToString(n),
      step_type |-> "reasoning", content |-> "step " \o ToString(n),
      timestamp |-> "t" ] : j \in jobs, n \in 1..3 }

\* error events
ErrorMessages(jobs) ==
  { [ type |-> "error", job_id |-> j, error_code |-> "E500",
      message |-> "Agent failed", details |-> Undefined ] : j \in jobs }

\* job_complete either carries results, message and summary or none of them
JobCompleteMessages(jobs) ==
  { [ type |-> "job_complete", job_id |-> j, status |-> "completed",
      results |-> Some([ layers |-> ls ]), message |-> "done",
      analysis_summary |-> "summary" ] : j \in jobs, ls \in LayerLists \ {<<>>} }
  \cup
  { [ type |-> "job_complete", job_id |-> j, status |-> "completed",
      results |-> None, message |-> Undefined,
      analysis_summary |-> Undefined ] : j \in jobs }

\* Number of fragments held by the assistant messages.
CotSize(messages) ==
  LET A == { i \in 1..Len(messages) : messages[i].type = "assistant" }
      RECURSIVE Sum(_)
      Sum(S) == IF S = {} THEN 0
                ELSE LET i == CHOOSE x \in S : TRUE
                     IN Cardinality(DOMAIN messages[i].cot) + Sum(S \ {i})
  IN  Sum(A)

\* ChatWindow.handleSubmit up to its first await: the form is guarded by
\* isAgentLoading and websocketConnected, then the user message is added.
HandleSubmit ==
  /\ submitted < MaxJobs
  /\ ~state.isAgentLoading /\ state.websocketConnected
  /\ Dispatch([ type |-> "ADD_USER_MESSAGE", payload |-> [ content |-> "query" ] ])
  /\ submitted' = submitted + 1
  /\ UNCHANGED <<issued, wsVars, lgVars, mapVars>>

\* queryAPI.submitQuery after the POST resolved: actions.startJob(job_id)
\* with the job id the query endpoint issued for a submitted query
StartJob ==
  /\ Cardinality(issued) < submitted
  /\ LET j == "J" \o ToString(Cardinality(issued) + 1) IN
       /\ Dispatch([ type |-> "START_JOB", payload |-> [ jobId |-> j ] ])
       /\ issued' = issued \cup {j}
  /\ UNCHANGED <<submitted, wsVars, lgVars, mapVars>>

\* socket onopen / onclose: dispatcher(SET_WEBSOCKET_CONNECTED)
ConnectionChange ==
  \E b \in BOOLEAN :
    /\ b # state.websocketConnected
    /\ Dispatch([ type |-> "SET_WEBSOCKET_CONNECTED", payload |-> b ])
    /\ UNCHANGED <<issued, submitted, wsVars, lgVars, mapVars>>

\* chain_of_thought / action / observation event of an issued job
FragmentEvent ==
  \E m \in FragmentMessages(issued) :
    /\ CotSize(state.messages) < MaxFragments
    /\ Dispatch(formattedAction(m))
    /\ UNCHANGED <<issued, submitted, wsVars, lgVars, mapVars>>

\* status_update event of an issued job
StatusUpdateEvent ==
  \E m \in StatusUpdateMessages(issued) :
    /\ CotSize(state.messages) < MaxFragments
    /\ Dispatch(formattedAction(m))
    /\ UNCHANGED <<issued, submitted, wsVars, lgVars, mapVars>>

\* final_status event of an issued job
FinalStatusEvent ==
  \E m \in FinalStatusMessages(issued) :
    /\ Dispatch(formattedAction(m))
    /\ UNCHANGED <<issued, submitted, wsVars, lgVars, mapVars>>

\* job_complete event of an issued job
JobCompleteEvent ==
  \E m \in JobCompleteMessages(issued) :
    /\ Dispatch(formattedAction(m))
    /\ UNCHANGED <<issued, submitted, wsVars, lgVars, mapVars>>

\* cot_step event of an issued job
CotStepEvent ==
  \E m \in CotStepMessages(issued) :
    /\ Dispatch(formattedAction(m))
    /\ UNCHANGED <<issued, submitted, wsVars, lgVars, mapVars>>

\* error event of an issued job
ErrorEvent ==
  \E m \in ErrorMessages(issued) :
    /\ Dispatch(formattedAction(m))
    /\ UNCHANGED <<issued, submitted, wsVars, lgVars, mapVars>>

(***************************************************************************)
(* Datasets and map layers: the facade operations of useAppActions and the *)
(* ingestion events.                                                       *)
(***************************************************************************)
DatasetIds == {"D1", "D2"}

\* response.data of POST /api/upload/: a vector file and a raster file
Datasets ==
  { [ dataset_id |-> "D1", name |-> "D1.geojson", status |-> "ingesting",
      file_type |-> "GeoJSON" ],
    [ dataset_id |-> "D2", name |-> "D2.tif", status |-> "uploaded",
      file_type |-> "GeoTIFF" ] }

DatasetStatuses == {"processed", "ingestion_failed"}

\* task_id of the ingestion endpoint's response
TaskIds == {"T1"}

\* ingestion_complete / ingestion_failed events, with or without a dataset
\* id and the id of the ingestion task
IngestionMessages ==
  { [ type |-> t, dataset_id |-> d, job_id |-> j ] :
      t \in {"ingestion_complete", "ingestion_failed"},
      d \in DatasetIds \cup {Undefined}, j \in TaskIds \cup {Undefined} }

\* Number of ingestion notices among the messages.
IngestNotes(messages) ==
  Cardinality({ i \in 1..Len(messages) :
                  /\ messages[i].type = "assistant"
                  /\ DOMAIN messages[i].cot \cap {"ingestion_complete", "ingestion_failed"} # {} })

\* LayerControl.handleAddLayer: the layer of an uploaded dataset
datasetLayer(dataset) ==
  [ layerId |-> dataset.dataset_id, name |-> dataset.name,
    type |-> OrElse(dataset.file_type, "vector"),
    visible |-> TRUE, style |-> "fallback", bbox |-> Null ]

\* Layers the components hand to actions.addMapLayer: a dataset's layer
\* (LayerControl) or an output layer of the shown results (ResultPanel).
AddableLayers(s) ==
  { datasetLayer(s.uploadedDatasets[i]) : i \in 1..Len(s.uploadedDatasets) }
  \cup
  (IF s.results = None THEN {}
   ELSE { pendingLayer(s.results[1].jobId, s.results[1].layers[i]) :
            i \in 1..Len(s.results[1].layers) })

LayerIdsOf(s) == { s.mapLayers[i].layerId : i \in 1..Len(s.mapLayers) }

\* String.prototype.toLowerCase over the file types that occur
LowerOfType == [ GeoJSON |-> "geojson", GeoTIFF |-> "geotiff", COG |-> "cog" ]

\* String.prototype.includes over the lower-cased file types
includes(str, sub) ==
  <<str, sub>> \in { <<"geotiff", "tiff">>, <<"cog", "cog">> }

\* dataset.file_type && (file_type.toLowerCase().includes('tiff') || ...includes('cog'))
isRasterType(dataset) ==
  /\ Truthy(dataset.file_type)
  /\ \/ includes(LowerOfType[dataset.file_type], "tiff")
     \/ includes(LowerOfType[dataset.file_type], "cog")

\* utils: canAddToMap(dataset)
canAddToMap(dataset) ==
  IF isRasterType(dataset) THEN TRUE ELSE dataset.status = "processed"

\* api: needsProcessing(dataset)
needsProcessing(dataset) ==
  IF isRasterType(dataset) THEN FALSE
  ELSE dataset.status = "uploaded" \/ dataset.status = "ingestion_failed"

\* DatasetItem.handleAddToMap: the store after the click on a dataset's
\* "add to map" button
handleAddToMap(s, dataset) ==
  LET isLayerOnMap == \E i \in 1..Len(s.mapLayers) : s.mapLayers[i].layerId = dataset.dataset_id
  IN  IF dataset.status = "processed" /\ ~isLayerOnMap
      THEN appReducer(s, [ type |-> "ADD_MAP_LAYER",
                           payload |-> [ layer |->
                             [ layerId |-> dataset.dataset_id, name |-> dataset.name,
                               visible |-> TRUE, type |-> "vector", style |-> EmptyObject ] ] ])
      ELSE s

\* uploadAPI.uploadFile after the POST resolved: actions.addDataset(response.data)
AddDataset ==
  \E d \in Datasets :
    /\ Dispatch([ type |-> "ADD_DATASET", payload |-> [ dataset |-> d ] ])
    /\ UNCHANGED <<issued, submitted, wsVars, lgVars, mapVars>>

\* actions.removeDataset(datasetId)
RemoveDataset ==
  \E d \in DatasetIds :
    /\ Dispatch([ type |-> "REMOVE_DATASET", payload |-> [ datasetId |-> d ] ])
    /\ UNCHANGED <<issued, submitted, wsVars, lgVars, mapVars>>

\* actions.updateDatasetStatus(datasetId, status)
UpdateDatasetStatus ==
  \E d \in DatasetIds, st \in DatasetStatuses :
    /\ Dispatch([ type |-> "UPDATE_DATASET_STATUS",
                  payload |-> [ datasetId |-> d, status |-> st ] ])
    /\ UNCHANGED <<issued, submitted, wsVars, lgVars, mapVars>>

\* ingestion_complete / ingestion_failed event
IngestionEvent ==
  \E m \in IngestionMessages :
    /\ IngestNotes(state.messages) < MaxNotes
    /\ Dispatch(formattedAction(m))
    /\ UNCHANGED <<issued, submitted, wsVars, lgVars, mapVars>>

\* actions.addMapLayer(layer)
AddMapLayer ==
  \E layer \in AddableLayers(state) :
    /\ Dispatch([ type |-> "ADD_MAP_LAYER", payload |-> [ layer |-> layer ] ])
    /\ UNCHANGED <<issued, submitted, wsVars, lgVars, mapVars>>

\* actions.removeMapLayer(layerId)
RemoveMapLayer ==
  \E id \in LayerIdsOf(state) :
    /\ Dispatch([ type |-> "REMOVE_MAP_LAYER", payload |-> [ layerId |-> id ] ])
    /\ UNCHANGED <<issued, submitted, wsVars, lgVars, mapVars>>

\* actions.toggleLayerVisibility(layerId)
ToggleLayerVisibility ==
  \E id \in LayerIdsOf(state) :
    /\ Dispatch([ type |-> "TOGGLE_LAYER_VISIBILITY", payload |-> [ layerId |-> id ] ])
    /\ UNCHANGED <<issued, submitted, wsVars, lgVars, mapVars>>

\* actions.reorderMapLayers(sourceId, targetId)
ReorderMapLayers ==
  \E sourceId \in LayerIdsOf(state), targetId \in LayerIdsOf(state) \cup {Null} :
    /\ Dispatch([ type |-> "REORDER_MAP_LAYERS",
                  payload |-> [ sourceId |-> sourceId, targetId |-> targetId ] ])
    /\ UNCHANGED <<issued, submitted, wsVars, lgVars, mapVars>>

\* actions.clearChat()
ClearChat ==
  /\ Dispatch([ type |-> "CLEAR_CHAT" ])
  /\ UNCHANGED <<issued, submitted, wsVars, lgVars, mapVars>>


(***************************************************************************)
(* socket/websocket.js: WebSocketService                                   *)
(***************************************************************************)
maxReconnectAttempts == 5

RECURSIVE Pow2(_)
Pow2(n) == IF n = 0 THEN 1 ELSE 2 * Pow2(n - 1)

Min(a, b) == IF a <= b THEN a ELSE b

\* constructor()
wsInit ==
  [ socket            |-> 0,       \* index into sockets, 0 for null
    isConnecting      |-> FALSE,
    reconnectAttempts |-> 0,
    reconnectTimeout  |-> 0,       \* timer handle, 0 for null
    registered        |-> FALSE,   \* a dispatcher other than the discarding default
    activeSubscriptions |-> <<>> ] \* a Set, kept in insertion order

Live(S) == { i \in 1..Len(S) : S[i] \in {"CONNECTING", "OPEN"} }

\* this.dispatcher(action): the registered dispatch, or the default that
\* warns and discards
dispatcher(w, s, a) == IF w.registered THEN appReducer(s, a) ELSE s

\* Nothing ran, nothing was sent, nothing was dispatched.
noOut == [ ran |-> <<>>, arg |-> Null, sent |-> <<>>, dispatched |-> <<>> ]

\* an action handed to this.dispatcher by handler `by` (for frame `frame`)
Dispatched(by, type, frame) == [ by |-> by, type |-> type, frame |-> frame ]

\* safeSend(message): sent on this.socket when that is open, else dropped
safeSend(w, S, message) ==
  IF w.socket # 0 /\ S[w.socket] = "OPEN"
  THEN << [ socket |-> w.socket, message |-> message ] >>
  ELSE <<>>

\* _resubscribeToChannels(): one subscribe per entry of activeSubscriptions
RECURSIVE resubscribeFrom(_, _, _)
resubscribeFrom(w, S, k) ==
  IF k > Len(w.activeSubscriptions) THEN <<>>
  ELSE safeSend(w, S, [ type |-> "subscribe", channel |-> w.activeSubscriptions[k] ])
         \o resubscribeFrom(w, S, k + 1)

resubscribeToChannels(w, S) == resubscribeFrom(w, S, 1)

\* the guard of _internalConnect without the test of this.socket
canConnect_onlyConnecting(w) == ~w.isConnecting

\* if (this.socket || this.isConnecting) return;
canConnect(w) == ~(w.socket # 0 \/ w.isConnecting)

\* _internalConnect(): the service and the sockets after the call
internalConnectWs(w, S) ==
  IF canConnect(w)
  THEN [ w EXCEPT !.isConnecting = TRUE, !.socket = Len(S) + 1 ]
  ELSE w

internalConnectSockets(w, S) ==
  IF canConnect(w) THEN Append(S, "CONNECTING") ELSE S

\* Math.min(1000 * Math.pow(2, this.reconnectAttempts), 30000)
reconnectDelay(attempts) == Min(1000 * Pow2(attempts), 30000)

\* registerDispatcher(dispatchFn) with a function
RegisterDispatcher ==
  LET w == [ ws EXCEPT !.registered = TRUE ] IN
    /\ canConnect(w) => Len(sockets) < MaxSockets
    /\ out' = [ noOut EXCEPT
                  !.ran = <<"registerDispatcher">>,
                  !.dispatched =
                    IF w.socket # 0 /\ sockets[w.socket] # "CONNECTING"
                    THEN << Dispatched("registerDispatcher", "SET_WEBSOCKET_CONNECTED", 0) >>
                    ELSE <<>> ]
    /\ IF w.socket # 0
       THEN /\ ws' = w
            /\ sockets' = sockets
            /\ gaveUp' = gaveUp
            /\ state' = CASE sockets[w.socket] = "OPEN" ->
                               dispatcher(w, state, [ type |-> "SET_WEBSOCKET_CONNECTED", payload |-> TRUE ])
                          [] sockets[w.socket] = "CONNECTING" -> state
                          [] OTHER ->
                               dispatcher(w, state, [ type |-> "SET_WEBSOCKET_CONNECTED", payload |-> FALSE ])
       ELSE IF ~w.isConnecting
            THEN /\ ws' = internalConnectWs(w, sockets)
                 /\ sockets' = internalConnectSockets(w, sockets)
                 /\ gaveUp' = "no"
                 /\ state' = state
            ELSE /\ ws' = w
                 /\ UNCHANGED <<sockets, gaveUp, state>>
    /\ UNCHANGED <<timers, msgVars, issued, submitted, lgVars, mapVars>>

\* socket/websocket.js: webSocketService._internalConnect() when the module
\* is loaded, before any component has mounted
ModuleInit ==
  /\ sockets = <<>> /\ ~ws.registered
  /\ ws' = internalConnectWs(ws, sockets)
  /\ sockets' = internalConnectSockets(ws, sockets)
  /\ out' = [ noOut EXCEPT !.ran = <<"_internalConnect">> ]
  /\ UNCHANGED <<timers, gaveUp, msgVars, state, issued, submitted, lgVars, mapVars>>

\* socket/websocket.js: registerDispatcher(dispatchFn) stores the function
\* and does nothing else
RegisterDispatcherOnly ==
  /\ sockets # <<>> /\ ~ws.registered
  /\ ws' = [ ws EXCEPT !.registered = TRUE ]
  /\ out' = [ noOut EXCEPT !.ran = <<"registerDispatcher">> ]
  /\ UNCHANGED <<sockets, timers, gaveUp, msgVars, state, issued, submitted, lgVars, mapVars>>

\* unregisterDispatcher()
UnregisterDispatcher ==
  /\ ws.registered
  /\ ws' = [ ws EXCEPT !.registered = FALSE ]
  /\ out' = [ noOut EXCEPT !.ran = <<"unregisterDispatcher">> ]
  /\ UNCHANGED <<sockets, timers, gaveUp, msgVars, state, issued, submitted, lgVars, mapVars>>

\* onopen that leaves the attempt counter as it is
onopenWs_keepAttempts(w) == [ w EXCEPT !.isConnecting = FALSE ]

\* socket.onopen: this.isConnecting = false; this.reconnectAttempts = 0
onopenWs(w) == [ w EXCEPT !.isConnecting = FALSE, !.reconnectAttempts = 0 ]

\* socket.onopen of socket i
SocketOpen ==
  \E i \in 1..Len(sockets) :
    /\ sockets[i] = "CONNECTING"
    /\ sockets' = [ sockets EXCEPT ![i] = "OPEN" ]
    /\ ws' = onopenWs(ws)
    \* if (this.reconnectTimeout) clearTimeout(this.reconnectTimeout)
    /\ timers' = { t \in timers : t.id # ws.reconnectTimeout }
    /\ gaveUp' = "no"
    /\ state' = dispatcher(ws, state, [ type |-> "SET_WEBSOCKET_CONNECTED", payload |-> TRUE ])
    /\ out' = [ ran |-> <<"onopen">>, arg |-> Null,
                sent |-> resubscribeToChannels(ws, [ sockets EXCEPT ![i] = "OPEN" ]),
                dispatched |-> << Dispatched("onopen", "SET_WEBSOCKET_CONNECTED", 0) >> ]
    /\ UNCHANGED <<msgVars, issued, submitted, lgVars, mapVars>>

\* the closing handshake of socket i has started
SocketClosing ==
  \E i \in 1..Len(sockets) :
    /\ sockets[i] = "OPEN"
    /\ sockets' = [ sockets EXCEPT ![i] = "CLOSING" ]
    /\ out' = noOut
    /\ UNCHANGED <<ws, timers, gaveUp, msgVars, state, issued, submitted, lgVars, mapVars>>

\* Timer handles are handed out in increasing order.
NextTimerId == ws.reconnectTimeout + 1

\* socket.onerror: console.error only
onerrorDispatched == <<>>

\* socket i closes: socket.onclose runs, after socket.onerror when the
\* connection failed (a connection that never opened always fails)
SocketClose ==
  \E i \in 1..Len(sockets), failed \in BOOLEAN :
    /\ sockets[i] \in {"CONNECTING", "OPEN", "CLOSING"}
    /\ sockets[i] = "CONNECTING" => failed
    /\ sockets' = [ sockets EXCEPT ![i] = "CLOSED" ]
    /\ out' = [ ran |-> IF failed THEN <<"onerror", "onclose">> ELSE <<"onclose">>,
                arg |-> Null,
                sent |-> <<>>,
                dispatched |->
                  (IF failed THEN onerrorDispatched ELSE <<>>)
                  \o << Dispatched("onclose", "SET_WEBSOCKET_CONNECTED", 0) >>
                  \o (IF ws.reconnectAttempts < maxReconnectAttempts THEN <<>>
                      ELSE << Dispatched("onclose", "SET_ERROR", 0) >>) ]
    /\ LET s1 == dispatcher(ws, state, [ type |-> "SET_WEBSOCKET_CONNECTED", payload |-> FALSE ])
           w1 == [ ws EXCEPT !.socket = 0, !.isConnecting = FALSE ]
       IN  IF w1.reconnectAttempts < maxReconnectAttempts
           THEN LET attempts == w1.reconnectAttempts + 1 IN
                  /\ ws' = [ w1 EXCEPT !.reconnectAttempts = attempts,
                                       !.reconnectTimeout = NextTimerId ]
                  /\ timers' = timers \cup
                       { [ id |-> NextTimerId, delay |-> reconnectDelay(attempts),
                           attempt |-> attempts ] }
                  /\ gaveUp' = gaveUp
                  /\ state' = s1
           ELSE /\ ws' = w1
                /\ timers' = timers
                /\ gaveUp' = IF ws.registered THEN "dispatched" ELSE "discarded"
                /\ state' = dispatcher(ws, s1,
                     [ type |-> "SET_ERROR",
                       payload |-> [ message |-> "Could not connect to the server.",
                                     details |-> "Please check your connection and refresh the page." ] ])
    /\ UNCHANGED <<msgVars, issued, submitted, lgVars, mapVars>>

\* the setTimeout callback of a reconnect timer: this._internalConnect()
ReconnectTimer ==
  \E t \in timers :
    /\ canConnect(ws) => Len(sockets) < MaxSockets
    /\ timers' = timers \ {t}
    /\ ws' = internalConnectWs(ws, sockets)
    /\ sockets' = internalConnectSockets(ws, sockets)
    /\ out' = [ noOut EXCEPT !.ran = <<"reconnectTimer">> ]
    /\ UNCHANGED <<gaveUp, msgVars, state, issued, submitted, lgVars, mapVars>>

\* Channel ids the callers subscribe to.
Channels == {"J1", "J2"}

\* activeSubscriptions after subscribe(jobId) when the channel is recorded
\* only if the subscribe message could be sent
subscribeSet_onlyWhenOpen(w, S, jobId) ==
  IF w.socket # 0 /\ S[w.socket] = "OPEN" /\
     ~(\E k \in DOMAIN w.activeSubscriptions : w.activeSubscriptions[k] = jobId)
  THEN Append(w.activeSubscriptions, jobId)
  ELSE w.activeSubscriptions

\* this.activeSubscriptions.add(jobId)
subscribeSet(w, S, jobId) ==
  IF \E k \in DOMAIN w.activeSubscriptions : w.activeSubscriptions[k] = jobId
  THEN w.activeSubscriptions
  ELSE Append(w.activeSubscriptions, jobId)

\* subscribe(jobId)
Subscribe ==
  \E jobId \in Channels \cup {Null} :
    /\ IF ~Truthy(jobId)
       THEN /\ ws' = ws
            /\ out' = [ noOut EXCEPT !.ran = <<"subscribe">>, !.arg = jobId ]
       ELSE /\ ws' = [ ws EXCEPT !.activeSubscriptions = subscribeSet(ws, sockets, jobId) ]
            /\ out' = [ noOut EXCEPT
                          !.ran = <<"subscribe">>, !.arg = jobId,
                          !.sent = safeSend(ws, sockets, [ type |-> "subscribe", channel |-> jobId ]) ]
    /\ UNCHANGED <<sockets, timers, gaveUp, msgVars, state, issued, submitted, lgVars, mapVars>>

\* unsubscribe(jobId)
Unsubscribe ==
  \E jobId \in Channels \cup {Null} :
    /\ IF ~Truthy(jobId)
       THEN /\ ws' = ws
            /\ out' = [ noOut EXCEPT !.ran = <<"unsubscribe">>, !.arg = jobId ]
       ELSE /\ ws' = [ ws EXCEPT !.activeSubscriptions =
                                   FilterSeq(@, { @[k] : k \in DOMAIN @ } \ {jobId}) ]
            /\ out' = [ noOut EXCEPT
                          !.ran = <<"unsubscribe">>, !.arg = jobId,
                          !.sent = safeSend(ws, sockets, [ type |-> "unsubscribe", channel |-> jobId ]) ]
    /\ UNCHANGED <<sockets, timers, gaveUp, msgVars, state, issued, submitted, lgVars, mapVars>>

(***************************************************************************)
(* api/layerAPI.js: ingestDataset, called by DatasetItem.handleIngest      *)
(***************************************************************************)
\* response.data of POST /api/layers/ingest/{datasetId}
IngestResponses ==
  [ task_id : TaskIds \cup {Undefined}, status : {"ingesting", "processed"} ]

StatusOf(s, datasetId) ==
  LET I == { i \in 1..Len(s.uploadedDatasets) : s.uploadedDatasets[i].dataset_id = datasetId }
  IN  IF I = {} THEN Undefined ELSE s.uploadedDatasets[CHOOSE i \in I : TRUE].status

\* DatasetItem offers handleIngest for every status but ingesting and
\* processed; ingestDataset runs on after the POST resolved or rejected.
IngestDataset ==
  \E i \in 1..Len(state.uploadedDatasets) :
    LET datasetId == state.uploadedDatasets[i].dataset_id IN
    /\ state.uploadedDatasets[i].status \notin {"ingesting", "processed"}
    /\ \/ \* the request failed: the error is rethrown and logged by the caller
          /\ out' = [ noOut EXCEPT !.ran = <<"ingestDataset", "threw">>, !.arg = datasetId ]
          /\ UNCHANGED <<state, ws>>
       \/ \E response \in IngestResponses :
            IF ~Truthy(response.task_id)
            THEN /\ IF response.status = "processed"
                    THEN Dispatch([ type |-> "UPDATE_DATASET_STATUS",
                                    payload |-> [ datasetId |-> datasetId,
                                                  status |-> "processed" ] ])
                    ELSE state' = state
                 /\ out' = [ noOut EXCEPT !.ran = <<"ingestDataset">>, !.arg = datasetId ]
                 /\ ws' = ws
            ELSE LET w1 == [ ws EXCEPT !.activeSubscriptions =
                                        subscribeSet(ws, sockets, response.task_id) ]
                     w2 == [ w1 EXCEPT !.activeSubscriptions =
                                        subscribeSet(w1, sockets, datasetId) ]
                 IN  /\ ws' = w2
                     /\ out' = [ noOut EXCEPT
                           !.ran = <<"ingestDataset", "subscribe", "subscribe">>,
                           !.arg = datasetId,
                           !.sent = safeSend(ws, sockets,
                                      [ type |-> "subscribe", channel |-> response.task_id ])
                                    \o safeSend(w1, sockets,
                                      [ type |-> "subscribe", channel |-> datasetId ]) ]
                     /\ state' = state
    /\ UNCHANGED <<sockets, timers, gaveUp, msgVars, issued, submitted, lgVars, mapVars>>

(***************************************************************************)
(* api/queryAPI.js: submitQuery; ChatWindow.handleClearChat                *)
(***************************************************************************)
\* queryAPI.submitQuery after the POST resolved: actions.startJob(job_id),
\* then webSocketService.subscribe(job_id)
SubmitQuery ==
  /\ Cardinality(issued) < submitted
  /\ LET j == "J" \o ToString(Cardinality(issued) + 1) IN
       /\ Dispatch([ type |-> "START_JOB", payload |-> [ jobId |-> j ] ])
       /\ issued' = issued \cup {j}
       /\ ws' = [ ws EXCEPT !.activeSubscriptions = subscribeSet(ws, sockets, j) ]
       /\ out' = [ noOut EXCEPT
                     !.ran = <<"submitQuery", "subscribe">>, !.arg = j,
                     !.sent = safeSend(ws, sockets, [ type |-> "subscribe", channel |-> j ]) ]
  /\ UNCHANGED <<submitted, sockets, timers, gaveUp, msgVars, lgVars, mapVars>>

\* handleClearChat: unsubscribe from the active job, if any, then clearChat()
HandleClearChat ==
  /\ Len(state.messages) > 0
  /\ IF Truthy(state.activeJobId)
     THEN /\ ws' = [ ws EXCEPT !.activeSubscriptions =
                       FilterSeq(@, { @[k] : k \in DOMAIN @ } \ {state.activeJobId}) ]
          /\ out' = [ noOut EXCEPT
                        !.ran = <<"handleClearChat", "unsubscribe">>,
                        !.arg = state.activeJobId,
                        !.sent = safeSend(ws, sockets,
                                   [ type |-> "unsubscribe", channel |-> state.activeJobId ]) ]
     ELSE /\ ws' = ws
          /\ out' = [ noOut EXCEPT !.ran = <<"handleClearChat">> ]
  /\ Dispatch([ type |-> "CLEAR_CHAT" ])
  /\ UNCHANGED <<issued, submitted, sockets, timers, gaveUp, msgVars, lgVars, mapVars>>

(***************************************************************************)
(* api/datasetsAPI.js: deleteDataset; api/uploadAPI.js: uploadFile         *)
(***************************************************************************)
\* actions.setError(message) followed by actions.addNotification({ type: 'error', ... })
failed(s, message, notice) ==
  appReducer(
    appReducer(s, [ type |-> "SET_ERROR",
                    payload |-> [ message |-> message, details |-> EmptyObject ] ]),
    [ type |-> "ADD_NOTIFICATION",
      payload |-> [ notification |-> [ type |-> "error", message |-> notice ] ] ])

\* the dataset removed without waiting for the server's answer
deleteDataset_optimistic(s, datasetId, resolved) ==
  LET removed == appReducer(s, [ type |-> "REMOVE_DATASET",
                                 payload |-> [ datasetId |-> datasetId ] ])
  IN  IF ~Truthy(datasetId) THEN failed(s, "Dataset ID is required for deletion", "Failed to delete dataset")
      ELSE IF resolved
      THEN appReducer(removed,
             [ type |-> "ADD_NOTIFICATION",
               payload |-> [ notification |->
                 [ type |-> "success", message |-> "Dataset deleted successfully." ] ] ])
      ELSE failed(removed, "Network Error", "Failed to delete dataset")

\* deleteDataset(datasetId, actions): the store once the function has
\* returned or thrown; resolved says whether api.delete resolved
deleteDataset(s, datasetId, resolved) ==
  IF ~Truthy(datasetId) THEN failed(s, "Dataset ID is required for deletion", "Failed to delete dataset")
  ELSE IF resolved
  THEN appReducer(
         appReducer(s, [ type |-> "REMOVE_DATASET", payload |-> [ datasetId |-> datasetId ] ]),
         [ type |-> "ADD_NOTIFICATION",
           payload |-> [ notification |->
             [ type |-> "success", message |-> "Dataset deleted successfully." ] ] ])
  ELSE failed(s, "Network Error", "Failed to delete dataset")

\* DatasetItem.handleRemove -> datasetsAPI.deleteDataset(dataset.dataset_id, actions)
DeleteDataset ==
  \E datasetId \in DatasetIds \cup {Undefined}, resolved \in BOOLEAN :
    /\ Len(state.notifications) < MaxToasts
    /\ state' = deleteDataset(state, datasetId, resolved)
    /\ out' = [ noOut EXCEPT
                  !.ran = IF ~Truthy(datasetId) THEN <<"deleteDataset", "threw">>
                          ELSE IF resolved THEN <<"deleteDataset", "delete", "resolved">>
                          ELSE <<"deleteDataset", "delete", "rejected">>,
                  !.arg = datasetId ]
    /\ UNCHANGED <<ws, sockets, timers, gaveUp, msgVars, issued, submitted, lgVars, mapVars>>

\* const isLayerOnMap = state.mapLayers.some(l => l.layerId === dataset.dataset_id)
isLayerOnMap(s, datasetId) ==
  \E i \in 1..Len(s.mapLayers) : s.mapLayers[i].layerId = datasetId

\* DatasetItem.handleRemove up to its await: the user confirmed, and the
\* call keeps the isLayerOnMap of the render it was made in
HandleRemove ==
  \E i \in 1..Len(state.uploadedDatasets) :
    LET datasetId == state.uploadedDatasets[i].dataset_id IN
    /\ datasetId \notin DOMAIN deleting
    /\ deleting' = (datasetId :> isLayerOnMap(state, datasetId)) @@ deleting
    /\ out' = [ noOut EXCEPT !.ran = <<"handleRemove">>, !.arg = datasetId ]
    /\ UNCHANGED <<views, orphans, fetches, state, ws, sockets, timers, gaveUp, msgVars,
                   issued, submitted, lgVars>>

\* handleRemove after the await: deleteDataset has dispatched, then
\* if (isLayerOnMap) actions.removeMapLayer(dataset.dataset_id)
handleRemoveSettled(s, datasetId, wasOnMap, resolved) ==
  LET deleted == deleteDataset(s, datasetId, resolved) IN
  IF resolved /\ wasOnMap
  THEN appReducer(deleted, [ type |-> "REMOVE_MAP_LAYER", payload |-> [ layerId |-> datasetId ] ])
  ELSE deleted

\* the DELETE request of a handleRemove call resolves or is rejected
HandleRemoveSettle ==
  \E datasetId \in DOMAIN deleting, resolved \in BOOLEAN :
    /\ Len(state.notifications) < MaxToasts
    /\ state' = handleRemoveSettled(state, datasetId, deleting[datasetId], resolved)
    /\ deleting' = [ d \in DOMAIN deleting \ {datasetId} |-> deleting[d] ]
    /\ out' = [ noOut EXCEPT
                  !.ran = IF resolved THEN <<"handleRemove", "delete", "resolved">>
                          ELSE <<"handleRemove", "delete", "rejected">>,
                  !.arg = datasetId ]
    /\ UNCHANGED <<views, orphans, fetches, ws, sockets, timers, gaveUp, msgVars,
                   issued, submitted, lgVars>>

\* DatasetItem.handleAddToMap of a held dataset that the handler accepts
HandleAddToMap ==
  \E i \in 1..Len(state.uploadedDatasets) :
    /\ handleAddToMap(state, state.uploadedDatasets[i]) # state
    /\ state' = handleAddToMap(state, state.uploadedDatasets[i])
    /\ UNCHANGED <<issued, submitted, wsVars, lgVars, mapVars>>

MAX_FILE_SIZE == 100 * 1024 * 1024

\* file.size of the files offered, None for a missing file
FileSizes == {0, 1, MAX_FILE_SIZE, MAX_FILE_SIZE + 1}

Files == {None} \cup { Some([ size |-> n ]) : n \in FileSizes }

\* the validation without the test of an empty file
uploadError_noEmptyTest(file) ==
  IF file = None THEN "No file provided for upload"
  ELSE IF file[1].size > MAX_FILE_SIZE THEN "File size exceeds maximum allowed size"
  ELSE ""

\* the message of the Error thrown before the upload, "" when none is thrown
uploadError(file) ==
  IF file = None THEN "No file provided for upload"
  ELSE IF file[1].size = 0 THEN "Cannot upload empty file"
  ELSE IF file[1].size > MAX_FILE_SIZE THEN "File size exceeds maximum allowed size"
  ELSE ""

\* uploadFile({ file, metadata, onProgress }, actions): the store once the
\* function has returned or thrown; response is the answer to the POST,
\* None when the request was rejected
uploadFile(s, file, response) ==
  IF uploadError(file) # "" THEN failed(s, uploadError(file), "Upload failed")
  ELSE IF response = None THEN failed(s, "Network Error", "Upload failed")
  ELSE appReducer(
         appReducer(s, [ type |-> "ADD_DATASET", payload |-> [ dataset |-> response[1] ] ]),
         [ type |-> "ADD_NOTIFICATION",
           payload |-> [ notification |->
             [ type |-> "success", message |-> "uploaded successfully." ] ] ])

\* the calls uploadFile made, in order
uploadSteps(file, response) ==
  IF uploadError(file) # "" THEN <<"uploadFile", "threw">>
  ELSE IF response = None THEN <<"uploadFile", "post", "rejected">>
  ELSE <<"uploadFile", "post", "resolved">>

UploadFile ==
  \E file \in Files, response \in {None} \cup { Some(d) : d \in Datasets } :
    /\ Len(state.notifications) < MaxToasts
    /\ state' = uploadFile(state, file, response)
    /\ out' = [ noOut EXCEPT !.ran = uploadSteps(file, response),
                             !.arg = IF file = None THEN Null ELSE ToString(file[1].size) ]
    /\ UNCHANGED <<ws, sockets, timers, gaveUp, msgVars, issued, submitted, lgVars, mapVars>>

\* NotificationSystem: actions.removeNotification(notification.id) on timeout or click
RemoveNotification ==
  \E i \in 1..Len(state.notifications) :
    /\ Dispatch([ type |-> "REMOVE_NOTIFICATION",
                  payload |-> [ id |-> state.notifications[i].id ] ])
    /\ UNCHANGED <<issued, submitted, wsVars, lgVars, mapVars>>

(***************************************************************************)
(* components/MapViewer.jsx, components/DynamicGeoJSONLayer.jsx            *)
(***************************************************************************)
\* const isStaticLayer = layer.type === 'analysis_result' && layer.dataUrl
isStaticLayer(layer) ==
  layer.type = "analysis_result" /\ "dataUrl" \in DOMAIN layer /\ Truthy(layer.dataUrl)

LayerOf(s, id) == s.mapLayers[findIndex(s.mapLayers, id)]

\* mapLayers.map(layer => layer.visible ? <DynamicGeoJSONLayer key={layer.layerId} .../> : null)
VisibleIds(s) ==
  { s.mapLayers[i].layerId : i \in { k \in 1..Len(s.mapLayers) : s.mapLayers[k].visible } }

Count(f, id) == IF id \in DOMAIN f THEN f[id] ELSE 0

\* A component right after it mounted: the useState defaults, and the
\* debounce timer of the fetchData() its effect called. pending holds, for
\* each debounced fetchData with a timer running, the hasLoadedStatic its
\* closure captured.
mountedView == [ hasLoadedStatic |-> FALSE, pending |-> {FALSE}, inflight |-> 0 ]

\* the components shown are those of the visible layers of the store
IsRendered ==
  /\ DOMAIN views = VisibleIds(state)
  /\ DOMAIN fetches \subseteq LayerIdsOf(state)

\* React commits the render that follows a change of mapLayers: components
\* of hidden or removed layers unmount (their timers keep running),
\* components of newly visible layers mount with fresh state.
Render ==
  /\ ~IsRendered
  /\ LET unmounting == { id \in DOMAIN views \ VisibleIds(state) : FALSE \in views[id].pending }
     IN  /\ views' = [ id \in VisibleIds(state) |->
                         IF id \in DOMAIN views THEN views[id] ELSE mountedView ]
         /\ orphans' = [ id \in DOMAIN orphans \cup unmounting |->
                           Count(orphans, id) + (IF id \in unmounting THEN 1 ELSE 0) ]
         /\ fetches' = [ id \in DOMAIN fetches \cap LayerIdsOf(state) |-> fetches[id] ]
  /\ UNCHANGED <<deleting, storeVars, wsVars, lgVars>>

\* useMapEvents({ moveend: fetchData, zoomend: fetchData }): every mounted
\* component calls its current fetchData, which (re)starts its timer
MoveEnd ==
  /\ IsRendered
  /\ views # <<>>
  /\ views' = [ id \in DOMAIN views |->
                  [ views[id] EXCEPT !.pending = @ \cup {views[id].hasLoadedStatic} ] ]
  /\ UNCHANGED <<orphans, fetches, deleting, storeVars, wsVars, lgVars>>

\* the 300 ms timer of a mounted component's fetchData fires: the body runs
\* up to its first await
DebounceFire ==
  \E id \in DOMAIN views :
    \E hasLoadedStatic \in views[id].pending :
      /\ IsRendered
      /\ IF isStaticLayer(LayerOf(state, id)) /\ hasLoadedStatic
         THEN /\ views' = [ views EXCEPT ![id].pending = @ \ {hasLoadedStatic} ]
              /\ fetches' = fetches
         ELSE /\ Count(fetches, id) < MaxFetches
              /\ views' = [ views EXCEPT ![id].pending = @ \ {hasLoadedStatic},
                                         ![id].inflight = @ + 1 ]
              /\ fetches' = [ k \in DOMAIN fetches \cup {id} |->
                                Count(fetches, k) + (IF k = id THEN 1 ELSE 0) ]
      /\ UNCHANGED <<orphans, deleting, storeVars, wsVars, lgVars>>

\* the timer of an unmounted component fires: its closure still has
\* hasLoadedStatic = false, so the fetch is made
OrphanFire ==
  \E id \in DOMAIN orphans :
    /\ IsRendered
    /\ orphans[id] > 0
    /\ Count(fetches, id) < MaxFetches
    /\ orphans' = [ orphans EXCEPT ![id] = @ - 1 ]
    /\ fetches' = IF id \in LayerIdsOf(state)
                  THEN [ k \in DOMAIN fetches \cup {id} |->
                           Count(fetches, k) + (IF k = id THEN 1 ELSE 0) ]
                  ELSE fetches
    /\ UNCHANGED <<views, deleting, storeVars, wsVars, lgVars>>

\* the fetch of a mounted component resolves (ok) or fails: on success of a
\* static layer setHasLoadedStatic(true) makes a new fetchData, which the
\* effect calls
FetchSettle ==
  \E id \in DOMAIN views, ok \in BOOLEAN :
    /\ IsRendered
    /\ views[id].inflight > 0
    /\ views' = [ views EXCEPT ![id] =
         IF ok /\ isStaticLayer(LayerOf(state, id)) /\ ~@.hasLoadedStatic
         THEN [ @ EXCEPT !.inflight = @ - 1, !.hasLoadedStatic = TRUE,
                         !.pending = @ \cup {TRUE} ]
         ELSE [ @ EXCEPT !.inflight = @ - 1 ] ]
    /\ UNCHANGED <<orphans, fetches, deleting, storeVars, wsVars, lgVars>>

\* Payloads the transport can deliver: a ping, a well-formed event, JSON
\* without a type field, the JSON literal null, and text that is not JSON.
PingText == "{\"type\":\"ping\"}"
EventText == "{\"type\":\"status_update\",\"job_id\":\"J1\",\"message\":\"Working...\"}"
NoTypeText == "{\"job_id\":\"J1\"}"
NullText == "null"
NotJsonText == "Working..."
FrameTexts == {PingText, EventText, NoTypeText, NullText, NotJsonText}

\* A text frame carries a string, a binary frame a Blob (binaryType is left
\* at its default).
Frames == [ kind : {"text", "blob"}, data : FrameTexts ]

\* JSON.parse(text): threw, or the kind of value and, for an object, the
\* object
JSONparse(text) ==
  CASE text = PingText ->
         [ threw |-> FALSE, kind |-> "object", obj |-> [ type |-> "ping" ] ]
    [] text = EventText ->
         [ threw |-> FALSE, kind |-> "object",
           obj |-> [ type |-> "status_update", job_id |-> "J1", message |-> "Working..." ] ]
    [] text = NoTypeText ->
         [ threw |-> FALSE, kind |-> "object", obj |-> [ job_id |-> "J1" ] ]
    [] text = NullText ->
         [ threw |-> FALSE, kind |-> "null", obj |-> EmptyObject ]
    [] OTHER ->
         [ threw |-> TRUE, kind |-> "undefined", obj |-> EmptyObject ]

\* what a handler leaves behind: the store, the frames sent, the actions
\* dispatched
Handled(s, sent, dispatched) == [ state |-> s, sent |-> sent, dispatched |-> dispatched ]

\* _handleParsedMessage that forwards a ping like any other message
handleParsedMessage_forwardPing(w, S, s, parsed, frame) ==
  IF parsed.threw \/ parsed.kind # "object" \/ "type" \notin DOMAIN parsed.obj
  THEN Handled(s, <<>>, <<>>)
  ELSE Handled(dispatcher(w, s, formattedAction(parsed.obj)), <<>>,
               << Dispatched("onmessage", toUpperCase(parsed.obj.type), frame) >>)

\* _handleParsedMessage without the test of the type field: an object
\* without a type is dispatched with an undefined type
handleParsedMessage_noTypeCheck(w, S, s, parsed, frame) ==
  CASE parsed.threw -> Handled(s, <<>>, <<>>)
    [] parsed.kind # "object" -> Handled(s, <<>>, <<>>)
    [] "type" \in DOMAIN parsed.obj /\ parsed.obj.type = "ping" ->
         Handled(s, safeSend(w, S, [ type |-> "pong" ]), <<>>)
    [] "type" \notin DOMAIN parsed.obj ->
         Handled(dispatcher(w, s, [ type |-> Undefined, payload |-> parsed.obj ]), <<>>,
                 << Dispatched("onmessage", Undefined, frame) >>)
    [] OTHER ->
         Handled(dispatcher(w, s, formattedAction(parsed.obj)), <<>>,
                 << Dispatched("onmessage", toUpperCase(parsed.obj.type), frame) >>)

\* try { ... this._handleParsedMessage(message) } catch { console.error }
handleParsedMessage(w, S, s, parsed, frame) ==
  CASE parsed.threw -> Handled(s, <<>>, <<>>)
    [] parsed.kind # "object" -> Handled(s, <<>>, <<>>)
    [] "type" \in DOMAIN parsed.obj /\ parsed.obj.type = "ping" ->
         Handled(s, safeSend(w, S, [ type |-> "pong" ]), <<>>)
    [] "type" \notin DOMAIN parsed.obj -> Handled(s, <<>>, <<>>)
    [] OTHER ->
         Handled(dispatcher(w, s, formattedAction(parsed.obj)), <<>>,
                 << Dispatched("onmessage", toUpperCase(parsed.obj.type), frame) >>)

\* the frame ids among the dispatched actions
FramesOf(dispatched) == [ k \in DOMAIN dispatched |-> dispatched[k].frame ]

\* socket.onmessage of socket i: a string is parsed and handled at once, a
\* Blob is handed to text() and handled when that promise resolves
SocketMessage ==
  \E i \in 1..Len(sockets), f \in Frames :
    /\ sockets[i] = "OPEN"
    /\ Len(received) < MaxFrames
    /\ received' = Append(received, f)
    /\ LET id == Len(received) + 1
           h  == IF f.kind = "text"
                 THEN handleParsedMessage(ws, sockets, state, JSONparse(f.data), id)
                 ELSE Handled(state, <<>>, <<>>)
       IN  /\ pendingBlobs' =
                IF f.kind = "blob"
                THEN Append(pendingBlobs, [ frame |-> id, socket |-> i, data |-> f.data ])
                ELSE pendingBlobs
           /\ state' = h.state
           /\ out' = [ ran |-> <<"onmessage">>, arg |-> Null, sent |-> h.sent, dispatched |-> h.dispatched ]
           /\ delivered' = delivered \o FramesOf(h.dispatched)
    /\ UNCHANGED <<ws, sockets, timers, gaveUp, issued, submitted, lgVars, mapVars>>

\* event.data.text().then(...): the text of the oldest pending Blob is
\* parsed and handled
BlobRead ==
  /\ pendingBlobs # <<>>
  /\ LET b == Head(pendingBlobs)
         h == handleParsedMessage(ws, sockets, state, JSONparse(b.data), b.frame)
     IN  /\ pendingBlobs' = Tail(pendingBlobs)
         /\ state' = h.state
         /\ out' = [ ran |-> <<"blobText">>, arg |-> Null, sent |-> h.sent, dispatched |-> h.dispatched ]
         /\ delivered' = delivered \o FramesOf(h.dispatched)
  /\ UNCHANGED <<ws, sockets, timers, gaveUp, received, issued, submitted, lgVars, mapVars>>

(***************************************************************************)
(* services/websocket.js: the WebSocketService with connect()/disconnect() *)
(* and the store (hooks/appReducer) its store.actions dispatch into.       *)
(***************************************************************************)
\* this.reconnectDelay = 1000
reconnectDelayBase == 1000

\* constructor()
lgInit ==
  [ socket                        |-> 0,
    isConnected                   |-> FALSE,
    isConnecting                  |-> FALSE,
    reconnectAttempts             |-> 0,
    currentJobId                  |-> Null,
    hasShownError                 |-> FALSE,
    hasShownConnectedNotification |-> FALSE,
    pendingJoinRequests           |-> <<>> ]

\* hooks/store.js: let dispatchRef = null, next to the slice of the
\* hooks/appReducer initialState the service writes
lgStoreInit == [ dispatchRef |-> FALSE, websocketConnected |-> FALSE, notifications |-> <<>> ]

\* hooks/appReducer: SET_WEBSOCKET_CONNECTED and ADD_NOTIFICATION
legacyAppReducer(s, a) ==
  CASE a.type = "SET_WEBSOCKET_CONNECTED" -> [ s EXCEPT !.websocketConnected = a.payload ]
    [] a.type = "ADD_NOTIFICATION" ->
         [ s EXCEPT !.notifications = Append(@,
             [ type |-> OrElse(a.payload.type, "info"), message |-> a.payload.message,
               timeout |-> a.payload.timeout ]) ]
    [] OTHER -> s

\* store.actions.setWebSocketConnected(connected)
setWebSocketConnected(s, connected) ==
  IF s.dispatchRef
  THEN legacyAppReducer(s, [ type |-> "SET_WEBSOCKET_CONNECTED", payload |-> connected ])
  ELSE s

\* store.actions.addNotification(notification)
addNotification(s, notification) ==
  IF s.dispatchRef
  THEN legacyAppReducer(s, [ type |-> "ADD_NOTIFICATION", payload |-> notification ])
  ELSE s

\* initializeStore(dispatch)
initializeStore ==
  /\ ~lgStore.dispatchRef
  /\ lgStore' = [ lgStore EXCEPT !.dispatchRef = TRUE ]
  /\ UNCHANGED <<lg, lgSockets, lgTimers, lgTimeouts, storeVars, wsVars, mapVars>>

\* const delay = this.reconnectDelay * this.reconnectAttempts
legacyDelay(attempts) == reconnectDelayBase * attempts

\* processPendingJoinRequests(): every queued job is joined in turn, the
\* last one stays the current channel
processPendingJoinRequests(l) ==
  IF l.pendingJoinRequests = <<>> THEN l
  ELSE [ l EXCEPT !.currentJobId = l.pendingJoinRequests[Len(l.pendingJoinRequests)],
                  !.pendingJoinRequests = <<>> ]

\* connect()
LegacyConnect ==
  /\ ~(lg.socket # 0 /\ lg.isConnected)
  /\ ~lg.isConnecting
  /\ Len(lgSockets) < MaxLegacySockets
  /\ lg' = [ lg EXCEPT !.isConnecting = TRUE, !.socket = Len(lgSockets) + 1 ]
  /\ lgSockets' = Append(lgSockets, "CONNECTING")
  /\ lgTimeouts' = lgTimeouts + 1
  /\ UNCHANGED <<lgTimers, lgStore, storeVars, wsVars, mapVars>>

\* socket.onopen of socket i
LegacySocketOpen ==
  \E i \in 1..Len(lgSockets) :
    /\ lgSockets[i] = "CONNECTING"
    /\ lgSockets' = [ lgSockets EXCEPT ![i] = "OPEN" ]
    /\ lg' = processPendingJoinRequests(
               [ lg EXCEPT !.isConnected = TRUE, !.isConnecting = FALSE,
                           !.reconnectAttempts = 0, !.hasShownError = FALSE,
                           !.hasShownConnectedNotification = TRUE ])
    /\ lgStore' =
         LET s1 == setWebSocketConnected(lgStore, TRUE) IN
           IF ~lg.hasShownConnectedNotification
           THEN addNotification(s1, [ type |-> "success", message |-> "Connected to server",
                                      timeout |-> 3000 ])
           ELSE s1
    /\ UNCHANGED <<lgTimers, lgTimeouts, storeVars, wsVars, mapVars>>

\* socket.onerror: the service and the store after the handler
onerrorLg(l) ==
  [ l EXCEPT !.isConnected = FALSE, !.isConnecting = FALSE, !.hasShownError = TRUE ]

onerrorStore(l, s) ==
  LET s1 == setWebSocketConnected(s, FALSE) IN
    IF ~l.hasShownError
    THEN addNotification(s1, [ type |-> "error", message |-> "WebSocket connection error",
                               timeout |-> 5000 ])
    ELSE s1

\* Timer handles are handed out in increasing order.
LegacyNextTimerId ==
  IF lgTimers = {} THEN 1
  ELSE Max({ t.id : t \in lgTimers }) + 1

\* the socket i fails or closes: onerror (when the close is abnormal) and
\* then onclose run in the same task
LegacySocketClose ==
  \E i \in 1..Len(lgSockets), abnormal \in BOOLEAN :
    /\ lgSockets[i] \in {"CONNECTING", "OPEN", "CLOSING"}
    /\ lgSockets[i] = "CONNECTING" => abnormal
    /\ lgSockets' = [ lgSockets EXCEPT ![i] = "CLOSED" ]
    /\ LET l0 == IF abnormal THEN onerrorLg(lg) ELSE lg
           s0 == IF abnormal THEN onerrorStore(lg, lgStore) ELSE lgStore
           l1 == [ l0 EXCEPT !.isConnected = FALSE, !.isConnecting = FALSE ]
           s1 == setWebSocketConnected(s0, FALSE)
       IN  IF l1.reconnectAttempts < maxReconnectAttempts
           THEN LET attempts == l1.reconnectAttempts + 1 IN
                  /\ lg' = [ l1 EXCEPT !.reconnectAttempts = attempts ]
                  /\ lgTimers' = lgTimers \cup
                       { [ id |-> LegacyNextTimerId, delay |-> legacyDelay(attempts),
                           attempt |-> attempts ] }
                  /\ lgStore' = s1
           ELSE /\ lg' = [ l1 EXCEPT !.hasShownError = TRUE ]
                /\ lgTimers' = lgTimers
                /\ lgStore' =
                     IF ~l1.hasShownError
                     THEN addNotification(s1,
                            [ type |-> "error",
                              message |-> "Could not reconnect to server after multiple attempts.",
                              timeout |-> 5000 ])
                     ELSE s1
    /\ UNCHANGED <<lgTimeouts, storeVars, wsVars, mapVars>>

\* the setTimeout callback of a reconnect timer: this.connect()
LegacyReconnectTimer ==
  \E t \in lgTimers :
    LET go == ~(lg.socket # 0 /\ lg.isConnected) /\ ~lg.isConnecting IN
      /\ go => Len(lgSockets) < MaxLegacySockets
      /\ lgTimers' = lgTimers \ {t}
      /\ lg' = IF go THEN [ lg EXCEPT !.isConnecting = TRUE, !.socket = Len(lgSockets) + 1 ]
               ELSE lg
      /\ lgSockets' = IF go THEN Append(lgSockets, "CONNECTING") ELSE lgSockets
      /\ lgTimeouts' = IF go THEN lgTimeouts + 1 ELSE lgTimeouts
      /\ UNCHANGED <<lgStore, storeVars, wsVars, mapVars>>

\* the 10 s connection timeout of a connect() call:
\* if (this.isConnecting) { this.socket.close(); reject(...) }
LegacyConnectTimeout ==
  /\ lgTimeouts > 0
  /\ lgTimeouts' = lgTimeouts - 1
  /\ lgSockets' =
       IF lg.isConnecting /\ lgSockets[lg.socket] \in {"CONNECTING", "OPEN"}
       THEN [ lgSockets EXCEPT ![lg.socket] = "CLOSING" ]
       ELSE lgSockets
  /\ UNCHANGED <<lg, lgTimers, lgStore, storeVars, wsVars, mapVars>>

\* disconnect()
LegacyDisconnect ==
  /\ lg.socket # 0
  /\ lgSockets' = [ lgSockets EXCEPT ![lg.socket] =
                      IF @ \in {"CONNECTING", "OPEN"} THEN "CLOSING" ELSE @ ]
  /\ lg' = [ lg EXCEPT !.socket = 0, !.isConnected = FALSE, !.isConnecting = FALSE,
                       !.currentJobId = Null, !.pendingJoinRequests = <<>>,
                       !.hasShownError = FALSE, !.hasShownConnectedNotification = FALSE ]
  /\ lgStore' = setWebSocketConnected(lgStore, FALSE)
  /\ UNCHANGED <<lgTimers, lgTimeouts, storeVars, wsVars, mapVars>>

NextLegacy ==
  \/ initializeStore
  \/ LegacyConnect
  \/ LegacyDisconnect
  \/ LegacySocketOpen
  \/ LegacySocketClose
  \/ LegacyReconnectTimer
  \/ LegacyConnectTimeout

Init ==
  /\ state = initialState
  /\ issued = {}
  /\ submitted = 0
  /\ ws = wsInit
  /\ sockets = <<>>
  /\ timers = {}
  /\ gaveUp = "no"
  /\ out = noOut
  /\ pendingBlobs = <<>>
  /\ received = <<>>
  /\ delivered = <<>>
  /\ lg = lgInit
  /\ lgSockets = <<>>
  /\ lgTimers = {}
  /\ lgTimeouts = 0
  /\ lgStore = lgStoreInit
  /\ views = <<>>
  /\ orphans = <<>>
  /\ fetches = <<>>
  /\ deleting = <<>>

Next ==
  \/ HandleSubmit
  \/ StartJob
  \/ ConnectionChange
  \/ FragmentEvent
  \/ StatusUpdateEvent
  \/ FinalStatusEvent
  \/ JobCompleteEvent
  \/ CotStepEvent
  \/ ErrorEvent

vars == <<state, issued, submitted, ws, sockets, timers, gaveUp, out,
         pendingBlobs, received, delivered,
         lg, lgSockets, lgTimers, lgTimeouts, lgStore,
         views, orphans, fetches, deleting>>

Spec == Init /\ [][Next]_vars

NextWS ==
  \/ RegisterDispatcher
  \/ UnregisterDispatcher
  \/ SocketOpen
  \/ SocketClosing
  \/ SocketClose
  \/ ReconnectTimer

SpecWS == Init /\ [][NextWS]_vars

\* The service of socket/websocket.js: it connects when the module is
\* loaded, and registering a dispatcher only stores it.
NextWSModule ==
  \/ ModuleInit
  \/ RegisterDispatcherOnly
  \/ UnregisterDispatcher
  \/ SocketOpen
  \/ SocketClosing
  \/ SocketClose
  \/ ReconnectTimer

SpecWSModule == Init /\ [][NextWSModule]_vars

\* The service with its callers' subscriptions and the server's frames, on
\* the first MaxMsgSockets sockets it creates.
EarlyRegisterDispatcher == RegisterDispatcher /\ Len(sockets') <= MaxMsgSockets

EarlyReconnectTimer == ReconnectTimer /\ Len(sockets') <= MaxMsgSockets

NextMsg ==
  \/ EarlyRegisterDispatcher
  \/ UnregisterDispatcher
  \/ SocketOpen
  \/ SocketClosing
  \/ SocketClose
  \/ EarlyReconnectTimer
  \/ Subscribe
  \/ Unsubscribe
  \/ SocketMessage
  \/ BlobRead

SpecMsg == Init /\ [][NextMsg]_vars

SpecLegacy == Init /\ [][NextLegacy]_vars

FirstSubmit == HandleSubmit /\ submitted' <= MaxLayerJobs

\* The store under the dataset operations and the ingestion events, with
\* the first MaxLayerJobs jobs started beside them.
NextDatasets ==
  \/ FirstSubmit
  \/ StartJob
  \/ ConnectionChange
  \/ AddDataset
  \/ RemoveDataset
  \/ UpdateDatasetStatus
  \/ IngestionEvent
  \/ IngestDataset
  \/ ClearChat

SpecDatasets == Init /\ [][NextDatasets]_vars

\* The store under uploads, deletions and the ingestion events.
NextUpload ==
  \/ UploadFile
  \/ DeleteDataset
  \/ RemoveNotification
  \/ IngestionEvent
  \/ ClearChat

SpecUpload == Init /\ [][NextUpload]_vars

\* The chat window on the live service: queries are submitted and started,
\* the chat is cleared, while the socket opens, closes and reconnects.
NextQuery ==
  \/ EarlyRegisterDispatcher
  \/ SocketOpen
  \/ SocketClosing
  \/ SocketClose
  \/ EarlyReconnectTimer
  \/ HandleSubmit
  \/ SubmitQuery
  \/ HandleClearChat

SpecQuery == Init /\ [][NextQuery]_vars

\* Datasets are uploaded, processed, put on the map and deleted.
NextRemove ==
  \/ AddDataset
  \/ UpdateDatasetStatus
  \/ HandleAddToMap
  \/ HandleRemove
  \/ HandleRemoveSettle
  \/ RemoveNotification

SpecRemove == Init /\ [][NextRemove]_vars

\* One job from submission to its end, while files are uploaded and the
\* chat is cleared.
NextLoading ==
  \/ FirstSubmit
  \/ StartJob
  \/ ConnectionChange
  \/ FragmentEvent
  \/ FinalStatusEvent
  \/ JobCompleteEvent
  \/ UploadFile
  \/ ClearChat

SpecLoading == Init /\ [][NextLoading]_vars

\* The map: the first MaxLayerJobs jobs complete, layers are hidden, shown
\* and removed, the viewport moves, and every change of the store is
\* rendered before the next event is handled.
MapSubmit == IsRendered /\ FirstSubmit
MapStartJob == IsRendered /\ StartJob
MapConnectionChange == IsRendered /\ ConnectionChange
MapJobComplete == IsRendered /\ state.mapLayers = <<>> /\ JobCompleteEvent
FewOrphans == \A id \in DOMAIN orphans : orphans[id] < MaxOrphans
MapToggle == IsRendered /\ FewOrphans /\ ToggleLayerVisibility
MapRemove == IsRendered /\ FewOrphans /\ RemoveMapLayer

NextMap ==
  \/ MapSubmit
  \/ MapStartJob
  \/ MapConnectionChange
  \/ MapJobComplete
  \/ MapToggle
  \/ MapRemove
  \/ Render
  \/ MoveEnd
  \/ DebounceFire
  \/ OrphanFire
  \/ FetchSettle

SpecMap == Init /\ [][NextMap]_vars

\* The store under the layer operations and the completion of the first
\* MaxLayerJobs jobs.
NextLayers ==
  \/ FirstSubmit
  \/ StartJob
  \/ ConnectionChange
  \/ JobCompleteEvent
  \/ AddDataset
  \/ AddMapLayer
  \/ RemoveMapLayer
  \/ ToggleLayerVisibility
  \/ ReorderMapLayers
  \/ ClearChat

SpecLayers == Init /\ [][NextLayers]_vars

\* The transport ends the closing handshake of a socket whose close() ran.
ClosingCompletes ==
  SocketClose /\ \E i \in DOMAIN sockets : sockets[i] = "CLOSING" /\ sockets'[i] = "CLOSED"

LegacyClosingCompletes ==
  LegacySocketClose /\
    \E i \in DOMAIN lgSockets : lgSockets[i] = "CLOSING" /\ lgSockets'[i] = "CLOSED"

\* What the services schedule themselves is certain to run: every setTimeout
\* callback fires, and a socket that was told to close reports its close.
\* Whether and when the server answers a connection attempt is not.
SpecWSFair ==
  Init /\ [][NextWS]_vars /\ WF_vars(ReconnectTimer) /\ WF_vars(ClosingCompletes)

SpecLegacyFair ==
  Init /\ [][NextLegacy]_vars /\ WF_vars(LegacyReconnectTimer)
       /\ WF_vars(LegacyConnectTimeout) /\ WF_vars(LegacyClosingCompletes)

(***************************************************************************)
(* Properties of the job slice.                                            *)
(***************************************************************************)
StreamMessages ==
  FragmentMessages(issued) \cup StatusUpdateMessages(issued)

\* The assistant message the active-job pointer addresses (0 if none).
ActiveIndex(s) ==
  IF ~Truthy(s.activeJobId) THEN 0
  ELSE LET i == findLastJobMessage(s.messages, s.activeJobId) IN IF i = -1 THEN 0 ELSE i

LatestJob == "J" \o ToString(Cardinality(issued))

\* C1: once a later job has been started, the active-job pointer is that
\* job (or cleared), and a CHAIN_OF_THOUGHT, ACTION, OBSERVATION or
\* STATUS_UPDATE action changes no message but the assistant message whose
\* jobId is the active job: the messages of earlier jobs stay as they were.
C1_SingleActiveJob ==
  /\ Truthy(state.activeJobId) => state.activeJobId = LatestJob
  /\ \A m \in StreamMessages :
       LET t == appReducer(state, formattedAction(m)) IN
         /\ Len(t.messages) = Len(state.messages)
         /\ \A i \in 1..Len(state.messages) :
              t.messages[i] # state.messages[i] =>
                /\ state.messages[i].type = "assistant"
                /\ state.messages[i].jobId = state.activeJobId
                /\ t.messages[i].jobId = state.activeJobId

\* J1 then J2 were started and a fragment was merged afterwards: it is in
\* J2's message and J1's message is still empty.
C1_Witness ==
  \E i, k \in 1..Len(state.messages) :
    /\ i < k
    /\ state.messages[i].type = "assistant" /\ state.messages[i].jobId = "J1"
    /\ state.messages[k].type = "assistant" /\ state.messages[k].jobId = "J2"
    /\ state.activeJobId = "J2"
    /\ DOMAIN state.messages[i].cot = {}
    /\ "chain_of_thought" \in DOMAIN state.messages[k].cot

\* C2: merging a fragment into the active job's message yields the key-wise
\* union of the accumulator and the fragment: the fragment's key holds the
\* fragment's payload, every other key keeps its value, no key is removed.
C2_MergeIsKeywiseUnion ==
  \A m \in StreamMessages :
    LET a == formattedAction(m)
        k == toLowerCase(a.type)
        i == ActiveIndex(state)
        t == appReducer(state, a)
    IN  i # 0 =>
          LET old == state.messages[i].cot
              new == t.messages[i].cot
          IN  /\ DOMAIN new = DOMAIN old \cup {k}
              /\ new[k] = a.payload
              /\ \A f \in DOMAIN old \ {k} : new[f] = old[f]

\* {chain_of_thought: A} then {action: B} gave {chain_of_thought: A, action: B}
C2_Witness ==
  \E i \in 1..Len(state.messages) :
    /\ state.messages[i].type = "assistant"
    /\ DOMAIN state.messages[i].cot = {"chain_of_thought", "action"}
    /\ state.messages[i].cot["chain_of_thought"].content = "A"
    /\ state.messages[i].cot["action"].content = "B"

\* layers of a job_complete message
LayersOf(m) == IF m.results = None THEN <<>> ELSE m.results[1].layers

\* C3: reducing job_complete while job J is active marks J's message with a
\* final status, clears activeJobId and the loading flag, populates results
\* for J and leaves a visible map layer "J-L" for every output layer L.
C3_JobComplete ==
  \A m \in JobCompleteMessages(issued) :
    LET J == state.activeJobId
        i == ActiveIndex(state)
        t == appReducer(state, formattedAction(m))
    IN  i # 0 =>
          /\ "final_status" \in DOMAIN t.messages[i].cot
          /\ t.messages[i].cot["final_status"].status = "completed"
          /\ t.activeJobId = Null
          /\ ~t.isAgentLoading
          /\ t.results # None
          /\ t.results[1].jobId = J
          /\ t.results[1].layers = LayersOf(m)
          /\ \A n \in 1..Len(LayersOf(m)) :
               \E x \in 1..Len(t.mapLayers) :
                 /\ t.mapLayers[x].layerId = J \o "-" \o LayersOf(m)[n].layer_name
                 /\ t.mapLayers[x].visible

\* job J1 completed with the output layer flood_zones
C3_Witness ==
  /\ state.activeJobId = Null
  /\ state.results # None /\ state.results[1].jobId = "J1"
  /\ \E x \in 1..Len(state.mapLayers) :
       state.mapLayers[x].layerId = "J1-flood_zones" /\ state.mapLayers[x].visible
  /\ \E i \in 1..Len(state.messages) :
       /\ state.messages[i].type = "assistant" /\ state.messages[i].jobId = "J1"
       /\ "final_status" \in DOMAIN state.messages[i].cot

\* The assistant messages of job j.
MessagesOf(s, j) ==
  { i \in 1..Len(s.messages) : s.messages[i].type = "assistant" /\ s.messages[i].jobId = j }

\* Some fragment of message msg carries step n of the cot_step stream.
HoldsStep(msg, n) ==
  \E k \in DOMAIN msg.cot :
    /\ "step_number" \in DOMAIN msg.cot[k]
    /\ msg.cot[k].step_number = ToString(n)

CotStepOf(j, n) ==
  CHOOSE m \in CotStepMessages({j}) : m.step_number = ToString(n)

\* C4 (as claimed): after job j is started, three cot_step events of j in
\* order and then job_complete leave exactly one finalized assistant message
\* of j, holding all three step fragments and the final status.
C4_Claim ==
  \A j \in issued :
    (state.activeJobId = j /\ \A i \in MessagesOf(state, j) : DOMAIN state.messages[i].cot = {}) =>
      \A done \in JobCompleteMessages({j}) :
        LET s1 == appReducer(state, formattedAction(CotStepOf(j, 1)))
            s2 == appReducer(s1, formattedAction(CotStepOf(j, 2)))
            s3 == appReducer(s2, formattedAction(CotStepOf(j, 3)))
            s4 == appReducer(s3, formattedAction(done))
        IN  /\ Cardinality(MessagesOf(s4, j)) = 1
            /\ \A i \in MessagesOf(s4, j) :
                 /\ "final_status" \in DOMAIN s4.messages[i].cot
                 /\ \A n \in 1..3 : HoldsStep(s4.messages[i], n)

\* C5 (as claimed): an error event reduced while a job is active sets the
\* global error and clears the loading flag and activeJobId.
C5_Claim ==
  \A m \in ErrorMessages(issued) :
    Truthy(state.activeJobId) =>
      LET t == appReducer(state, formattedAction(m)) IN
        /\ t.error # None
        /\ ~t.isAgentLoading
        /\ t.activeJobId = Null

\* Streamed events of the jobs in `jobs`: fragments and terminal events.
JobEvents(jobs) ==
  FragmentMessages(jobs) \cup StatusUpdateMessages(jobs)
    \cup FinalStatusMessages(jobs) \cup JobCompleteMessages(jobs)

\* C6 (as claimed): an event whose job_id is a superseded job, not the
\* active one, never changes the active job's message, the active-job
\* pointer or the loading flag, and registers no layer under the active
\* job's id.
C6_Claim ==
  \A m \in JobEvents(issued \ {state.activeJobId}) :
    LET i == ActiveIndex(state)
        t == appReducer(state, formattedAction(m))
    IN  i # 0 =>
          /\ t.messages[i] = state.messages[i]
          /\ t.activeJobId = state.activeJobId
          /\ t.isAgentLoading = state.isAgentLoading
          /\ \A x \in 1..Len(t.mapLayers) :
               t.mapLayers[x].datasetId = state.activeJobId =>
                 \E y \in 1..Len(state.mapLayers) : state.mapLayers[y] = t.mapLayers[x]

\* Job j's assistant message has been finalized.
Finalized(s, j) ==
  /\ MessagesOf(s, j) # {}
  /\ \A i \in MessagesOf(s, j) : "final_status" \in DOMAIN s.messages[i].cot

\* C7 (as claimed): once job j's message is finalized, a later fragment or
\* terminal event of j leaves the whole state unchanged.
C7_Claim ==
  \A j \in issued :
    Finalized(state, j) =>
      \A m \in JobEvents({j}) : appReducer(state, formattedAction(m)) = state

(***************************************************************************)
(* Properties of the connection manager.                                   *)
(***************************************************************************)
\* The service of socket/websocket.js alone: under every interleaving of
\* dispatcher registrations, socket open and close events and reconnect
\* timers, at most one socket it created is connecting or open.
SingleSocket == Cardinality(Live(sockets)) <= 1

\* a reconnect timer left from an earlier close is still pending while a
\* socket created by registerDispatcher is open
SingleSocket_Witness ==
  /\ ws.socket # 0 /\ sockets[ws.socket] = "OPEN"
  /\ Len(sockets) >= 3
  /\ \E t \in timers : t.id < ws.reconnectTimeout
  /\ ws.reconnectAttempts = 0

\* C8 (as claimed): under every interleaving of connect calls, handler
\* registrations, socket close events and reconnect timers, neither
\* connection manager holds more than one socket that is connecting or open.
C8_Claim ==
  /\ Cardinality(Live(sockets)) <= 1
  /\ Cardinality(Live(lgSockets)) <= 1

\* C10 (as claimed): once the retries are exhausted the terminal error has
\* reached the store of the registered dispatcher, no reconnect is pending
\* and no socket exists until a connect is invoked by hand.
C10_Claim ==
  gaveUp # "no" =>
    /\ gaveUp = "dispatched" => state.error # None
    /\ timers = {}
    /\ ws.socket = 0

\* C9 (as claimed): the reconnect scheduled after the k-th consecutive close
\* waits base times a power of two, capped at 30000 ms and never less than
\* an earlier attempt's delay; from the third close on it waits at least
\* base * 2^2 ms.
C9_Claim ==
  \A t \in lgTimers :
    /\ \E e \in 0..t.attempt : t.delay = Min(reconnectDelayBase * Pow2(e), 30000)
    /\ t.attempt >= 3 => t.delay >= Min(reconnectDelayBase * Pow2(2), 30000)
    /\ \A u \in lgTimers : u.attempt <= t.attempt => u.delay <= t.delay

\* Socket i of the list S opens, respectively closes, in this step.
Opens(S, T) == \E i \in DOMAIN S : S[i] = "CONNECTING" /\ T[i] = "OPEN"
Closes(S, T) == \E i \in DOMAIN S : S[i] # "CLOSED" /\ T[i] = "CLOSED"

\* C11: every socket open sets the reconnect attempt counter to zero, the
\* counter stays zero until a close, and the close that finds it zero
\* schedules the reconnect of attempt 1 with the initial delay, so the whole
\* retry budget is still ahead; this for both connection managers.
C11_OpenResetsAttempts ==
  [][ /\ Opens(sockets, sockets') => ws'.reconnectAttempts = 0
      /\ ~Closes(sockets, sockets') => ws'.reconnectAttempts \in {0, ws.reconnectAttempts}
      /\ (Closes(sockets, sockets') /\ ws.reconnectAttempts = 0) =>
           /\ ws'.reconnectAttempts = 1
           /\ \E t \in timers' \ timers : t.attempt = 1 /\ t.delay = reconnectDelay(1)
      /\ Opens(lgSockets, lgSockets') => lg'.reconnectAttempts = 0
      /\ ~Closes(lgSockets, lgSockets') => lg'.reconnectAttempts \in {0, lg.reconnectAttempts}
      /\ (Closes(lgSockets, lgSockets') /\ lg.reconnectAttempts = 0) =>
           /\ lg'.reconnectAttempts = 1
           /\ \E t \in lgTimers' \ lgTimers : t.attempt = 1 /\ t.delay = legacyDelay(1)
    ]_vars

\* three sockets have closed and the counter is 1: an open in between
\* reset it, and the close after that open scheduled attempt 1
C11_Witness ==
  /\ Len(sockets) = 3
  /\ \A i \in 1..3 : sockets[i] = "CLOSED"
  /\ ws.reconnectAttempts = 1
  /\ \E t \in timers : t.attempt = 1 /\ t.delay = reconnectDelay(1)

\* disconnect() has returned and connect() has not run since: only
\* disconnect() clears this.socket, and every connect() sets it.
Disconnected == lg.socket = 0 /\ lgSockets # <<>>

\* C12 (as claimed): after disconnect() returns and until connect() is called
\* again, no reconnect timer is pending and the attempt counter is zero, so
\* the close caused by disconnect() has started no reconnect.
C12_Claim ==
  Disconnected => lgTimers = {} /\ lg.reconnectAttempts = 0

\* C13 (as claimed): a connection attempt does not stay pending forever: the
\* service leaves the connecting state, by an open or by the attempt being
\* failed into the reconnect path.
C13_Claim == ws.isConnecting ~> ~ws.isConnecting

\* The same for the service of services/websocket.js, whose connect() arms
\* a 10 s timeout.
LegacyConnectingEnds == lg.isConnecting ~> ~lg.isConnecting

\* The members of a sequence.
Range(seq) == { seq[k] : k \in DOMAIN seq }

\* C14: the step in which a socket opens sends, on that socket, one subscribe
\* message for each channel of the active-subscription set and nothing else;
\* and the set is what the callers made it: subscribe(c) puts c in whether or
\* not the socket is open, unsubscribe(c) takes c out, nothing else changes it.
C14_ResubscribeOnOpen ==
  [][ LET subs  == Range(ws.activeSubscriptions)
          subs1 == Range(ws'.activeSubscriptions)
      IN  /\ \A i \in DOMAIN sockets :
               (sockets[i] = "CONNECTING" /\ sockets'[i] = "OPEN") =>
                 /\ Len(out'.sent) = Cardinality(subs)
                 /\ { m.message.channel : m \in Range(out'.sent) } = subs
                 /\ \A m \in Range(out'.sent) : m.socket = i /\ m.message.type = "subscribe"
          /\ CASE out'.ran = <<"subscribe">> /\ Truthy(out'.arg) ->
                    subs1 = subs \cup {out'.arg}
               [] out'.ran = <<"unsubscribe">> /\ Truthy(out'.arg) ->
                    subs1 = subs \ {out'.arg}
               [] OTHER -> subs1 = subs
    ]_vars

\* the second socket has just opened and replayed the subscription to J2,
\* the only channel left in the set
C14_Witness ==
  /\ out.ran = <<"onopen">>
  /\ Len(sockets) = 2 /\ sockets[2] = "OPEN"
  /\ ws.activeSubscriptions = <<"J2">>
  /\ out.sent = << [ socket |-> 2, message |-> [ type |-> "subscribe", channel |-> "J2" ] ] >>

\* The frame received in this step, and the Blob whose text is handled in
\* this step.
Receives(f) == received' = Append(received, f)
ReadsBlob == received' = received /\ pendingBlobs # <<>> /\ pendingBlobs' = Tail(pendingBlobs)

Pong(i) == << [ socket |-> i, message |-> [ type |-> "pong" ] ] >>

Malformed == {NoTypeText, NullText, NotJsonText}

\* The service, its sockets and its timers are left as they are.
ServiceUntouched ==
  /\ ws' = ws /\ sockets' = sockets /\ timers' = timers /\ pendingBlobs' = pendingBlobs

\* C16: the step that handles a payload that is not JSON, or is JSON without
\* a type, calls neither the dispatcher nor send and changes neither the
\* store nor the service nor any socket; and a well-formed text frame is
\* handed to the dispatcher in the step that receives it, whatever came
\* before it.
C16_MalformedDropped ==
  [][ /\ \A d \in Malformed :
           /\ Receives([ kind |-> "text", data |-> d ]) =>
                /\ out'.dispatched = <<>> /\ out'.sent = <<>>
                /\ delivered' = delivered /\ state' = state
                /\ ServiceUntouched
           /\ (ReadsBlob /\ Head(pendingBlobs).data = d) =>
                /\ out'.dispatched = <<>> /\ out'.sent = <<>>
                /\ delivered' = delivered /\ state' = state
                /\ ws' = ws /\ sockets' = sockets /\ timers' = timers
      /\ Receives([ kind |-> "text", data |-> EventText ]) =>
           /\ delivered' = Append(delivered, Len(received'))
           /\ out'.dispatched = << Dispatched("onmessage", "STATUS_UPDATE", Len(received')) >>
           /\ ws.registered => state'.agentStatusMessage = "Working..."
           /\ ServiceUntouched
    ]_vars

\* a payload that is not JSON was dropped, and the well-formed event that
\* followed it on the still open socket reached the store
C16_Witness ==
  /\ Len(received) = 2
  /\ received[1].data = NotJsonText
  /\ received[2] = [ kind |-> "text", data |-> EventText ]
  /\ delivered = <<2>>
  /\ state.agentStatusMessage = "Working..."
  /\ Len(sockets) = 1 /\ sockets[1] = "OPEN"

\* C17 (as claimed): each of the socket handlers onopen, onclose and onerror
\* that ran in the last step handed a connection-state action to the
\* dispatcher, and with a dispatcher registered the store's flag is what the
\* transition made it.
C17_Claim ==
  /\ \A h \in {"onopen", "onclose", "onerror"} :
       h \in Range(out.ran) =>
         \E d \in Range(out.dispatched) : d.by = h /\ d.type = "SET_WEBSOCKET_CONNECTED"
  /\ (ws.registered /\ out.ran = <<"onopen">>) => state.websocketConnected
  /\ (ws.registered /\ "onclose" \in Range(out.ran)) => ~state.websocketConnected

\* C18 (as claimed): the frames handed to the dispatcher are handed over in
\* the order the transport delivered them, text and Blob frames alike.
C18_Claim ==
  \A a, b \in DOMAIN delivered : a < b => delivered[a] < delivered[b]

(***************************************************************************)
(* Datasets and the layer registry                                         *)
(***************************************************************************)
DatasetIdsUnique(s) ==
  \A i, k \in 1..Len(s.uploadedDatasets) :
    s.uploadedDatasets[i].dataset_id = s.uploadedDatasets[k].dataset_id => i = k

\* C19: no two entries of uploadedDatasets share a dataset id, and
\* ADD_DATASET of a dataset whose id is present returns the state as it was.
C19_DatasetIdsUnique ==
  /\ DatasetIdsUnique(state)
  /\ \A d \in Datasets :
       (\E i \in 1..Len(state.uploadedDatasets) :
          state.uploadedDatasets[i].dataset_id = d.dataset_id)
       => appReducer(state, [ type |-> "ADD_DATASET", payload |-> [ dataset |-> d ] ]) = state

\* Two datasets are held and an upload retried now carries an entry that
\* differs from the one held under its id.
C19_Witness ==
  /\ Len(state.uploadedDatasets) = 2
  /\ \E d \in Datasets, i \in 1..Len(state.uploadedDatasets) :
       /\ state.uploadedDatasets[i].dataset_id = d.dataset_id
       /\ state.uploadedDatasets[i] # d

LayerIdsUnique(s) ==
  \A i, k \in 1..Len(s.mapLayers) :
    s.mapLayers[i].layerId = s.mapLayers[k].layerId => i = k

\* C20: no two entries of mapLayers share a layerId, whether added by
\* ADD_MAP_LAYER or registered by job_complete, and ADD_MAP_LAYER of a layer
\* whose layerId is present returns the registry as it was.
C20_LayerIdsUnique ==
  /\ LayerIdsUnique(state)
  /\ \A m \in JobCompleteMessages(issued) :
       LayerIdsUnique(appReducer(state, formattedAction(m)))
  /\ \A layer \in AddableLayers(state) :
       layer.layerId \in LayerIdsOf(state)
       => appReducer(state, [ type |-> "ADD_MAP_LAYER", payload |-> [ layer |-> layer ] ]).mapLayers
            = state.mapLayers

\* A job_complete carrying the same output layer twice registered it once,
\* beside a dataset's layer, and the registered layer is hidden now, so that
\* adding it again from the results would change the registry.
C20_Witness ==
  /\ state.results # None
  /\ Len(state.results[1].layers) = 2
  /\ state.results[1].layers[1].layer_name = state.results[1].layers[2].layer_name
  /\ \E i, k \in 1..Len(state.mapLayers) :
       /\ state.mapLayers[i].type = "analysis_result"
       /\ ~state.mapLayers[i].visible
       /\ state.mapLayers[i] \notin AddableLayers(state)
       /\ state.mapLayers[i].layerId \in { l.layerId : l \in AddableLayers(state) }
       /\ state.mapLayers[k].type = "GeoJSON"

\* The registry without the layer of the given id, order kept.
Without(layers, id) ==
  FilterSeq(layers, { l \in { layers[i] : i \in 1..Len(layers) } : l.layerId # id })

reorder(s, sourceId, targetId) ==
  appReducer(s, [ type |-> "REORDER_MAP_LAYERS",
                  payload |-> [ sourceId |-> sourceId, targetId |-> targetId ] ])

\* C21: REORDER_MAP_LAYERS with a source held by the registry yields a
\* permutation of the registry in which the other layers keep their order and
\* the source stands immediately before the target, or last when the target is
\* null or not among the other layers; with an unknown source the state is
\* returned as it was.
C21_Reorder ==
  \A sourceId \in LayerIdsOf(state) \cup {"unknown"},
     targetId \in LayerIdsOf(state) \cup {"unknown", Null} :
    LET r == reorder(state, sourceId, targetId)
        n == Len(state.mapLayers)
        others == Without(state.mapLayers, sourceId)
    IN  IF sourceId \notin LayerIdsOf(state) THEN r = state
        ELSE /\ r = [ state EXCEPT !.mapLayers = r.mapLayers ]
             /\ Len(r.mapLayers) = n
             /\ { r.mapLayers[i] : i \in 1..n } = { state.mapLayers[i] : i \in 1..n }
             /\ Without(r.mapLayers, sourceId) = others
             /\ \E i \in 1..n :
                  /\ r.mapLayers[i].layerId = sourceId
                  /\ IF targetId \in LayerIdsOf(state) \ {sourceId}
                     THEN i < n /\ r.mapLayers[i + 1].layerId = targetId
                     ELSE i = n

\* Three layers are registered, so that a layer can be moved before a target
\* that is neither first nor its neighbour.
C21_Witness ==
  /\ Len(state.mapLayers) >= 3
  /\ reorder(state, state.mapLayers[3].layerId, state.mapLayers[1].layerId).mapLayers
       # state.mapLayers
  /\ reorder(state, state.mapLayers[1].layerId, Null).mapLayers # state.mapLayers

(***************************************************************************)
(* Ingestion                                                               *)
(***************************************************************************)
\* C22 (as claimed): when the user retries the ingestion of a dataset whose
\* status is ingestion_failed and the server starts a task, the dataset's
\* status becomes ingesting; an ingestion_complete event carrying a dataset's
\* id leaves that dataset processed.
C22_Claim ==
  [][ \A d \in DatasetIds :
        /\ ( /\ IngestDataset
             /\ StatusOf(state, d) = "ingestion_failed"
             /\ out'.arg = d
             /\ out'.ran = <<"ingestDataset", "subscribe", "subscribe">> )
           => StatusOf(state', d) = "ingesting"
        /\ StatusOf(state, d) # Undefined =>
             StatusOf(appReducer(state, formattedAction(
               [ type |-> "ingestion_complete", dataset_id |-> d, job_id |-> Undefined ])), d)
             = "processed" ]_vars

\* the status an ingestion event of the given type stands for
ExpectedStatus(type) ==
  IF type = "ingestion_complete" THEN "processed" ELSE "ingestion_failed"

\* C23: an ingestion_complete / ingestion_failed event carrying a dataset id
\* appends one assistant message of its own and sets the status of the
\* dataset of that id to processed / ingestion_failed, with or without an
\* active job; activeJobId, isAgentLoading, the messages held before and every
\* other field are as they were, and no dataset leaves the list.
C23_IngestionEvent ==
  \A m \in { x \in IngestionMessages : Truthy(x.dataset_id) } :
    LET r == appReducer(state, formattedAction(m))
        n == Len(state.messages)
        k == Len(state.uploadedDatasets)
    IN  /\ r = [ state EXCEPT !.messages = r.messages,
                              !.uploadedDatasets = r.uploadedDatasets ]
        /\ Len(r.messages) = n + 1
        /\ SubSeq(r.messages, 1, n) = state.messages
        /\ r.messages[n + 1].type = "assistant"
        /\ r.messages[n + 1].jobId = OrElse(m.job_id, m.dataset_id)
        /\ DOMAIN r.messages[n + 1].cot = {m.type}
        /\ Len(r.uploadedDatasets) = k
        /\ \A i \in 1..k :
             r.uploadedDatasets[i] =
               IF state.uploadedDatasets[i].dataset_id = m.dataset_id
               THEN [ state.uploadedDatasets[i] EXCEPT !.status = ExpectedStatus(m.type) ]
               ELSE state.uploadedDatasets[i]

\* An ingestion_failed notice was appended while a job is active, and the
\* dataset it names is held with status ingestion_failed beside another one.
C23_Witness ==
  /\ Truthy(state.activeJobId) /\ state.isAgentLoading
  /\ Len(state.uploadedDatasets) = 2
  /\ \E i \in 1..Len(state.messages) :
       /\ state.messages[i].type = "assistant"
       /\ DOMAIN state.messages[i].cot = {"ingestion_failed"}
       /\ i > 1
       /\ StatusOf(state, state.messages[i].cot.ingestion_failed.dataset_id) = "ingestion_failed"

\* C24 (as claimed): an ingestion event that carries the id of the task
\* started for a dataset, and no dataset id, sets the status of that dataset.
C24_Claim ==
  \A t \in {"ingestion_complete", "ingestion_failed"} :
    ( /\ out.ran = <<"ingestDataset", "subscribe", "subscribe">>
      /\ StatusOf(state, out.arg) # Undefined )
    => StatusOf(appReducer(state, formattedAction(
                  [ type |-> t, dataset_id |-> Undefined, job_id |-> "T1" ])), out.arg)
         = ExpectedStatus(t)

\* C25 (as claimed): the "add to map" button registers the layer of a raster
\* dataset whatever its status, and the layer of a vector dataset exactly when
\* its status is processed; canAddToMap and needsProcessing say the same.
C25_Claim ==
  \A i \in 1..Len(state.uploadedDatasets) :
    LET dataset == state.uploadedDatasets[i]
        added == dataset.dataset_id \in LayerIdsOf(handleAddToMap(state, dataset))
    IN  dataset.dataset_id \notin LayerIdsOf(state) =>
          /\ canAddToMap(dataset) = (isRasterType(dataset) \/ dataset.status = "processed")
          /\ isRasterType(dataset) => ~needsProcessing(dataset)
          /\ added = (isRasterType(dataset) \/ dataset.status = "processed")

(***************************************************************************)
(* Deleting and uploading datasets                                         *)
(***************************************************************************)
\* C26: a dataset leaves uploadedDatasets only in the step in which the
\* server's delete of that dataset has resolved, and a delete that was
\* rejected leaves the list, statuses included, as it was.
C26_DeleteAfterConfirm ==
  [][ /\ \A d \in DatasetIds :
           (StatusOf(state, d) # Undefined /\ StatusOf(state', d) = Undefined)
           => /\ DeleteDataset
              /\ out'.ran = <<"deleteDataset", "delete", "resolved">>
              /\ out'.arg = d
      /\ (DeleteDataset /\ out'.ran = <<"deleteDataset", "delete", "rejected">>)
           => state'.uploadedDatasets = state.uploadedDatasets ]_vars

\* The delete of a held dataset whose status had changed since its upload
\* was rejected: the error is set and the dataset is still held.
C26_Witness ==
  /\ out.ran = <<"deleteDataset", "delete", "rejected">>
  /\ StatusOf(state, out.arg) \in {"processed", "ingestion_failed"}
  /\ state.error # None
  /\ Len(state.uploadedDatasets) = 2

\* C27: uploadFile with a file of size 0 or of more than 100 MB throws before
\* the POST is made and leaves uploadedDatasets as it was.
C27_RejectedLocally ==
  [][ (UploadFile /\ out'.arg \in {"0", ToString(MAX_FILE_SIZE + 1)})
        => /\ out'.ran = <<"uploadFile", "threw">>
           /\ state'.uploadedDatasets = state.uploadedDatasets ]_vars

\* An empty file was offered while a dataset was held: the call threw, the
\* error is the local one and the dataset list still has its one entry.
C27_Witness ==
  /\ out.arg = "0"
  /\ out.ran = <<"uploadFile", "threw">>
  /\ state.error = Some([ message |-> "Cannot upload empty file", details |-> EmptyObject ])
  /\ Len(state.uploadedDatasets) = 1

(***************************************************************************)
(* Map layers' data                                                        *)
(***************************************************************************)
\* C28 (as claimed): a static analysis-result layer has issued at most one
\* data fetch since it was registered, whatever moves, zooms and visibility
\* toggles happened.
C28_Claim ==
  \A id \in DOMAIN fetches :
    (id \in LayerIdsOf(state) /\ isStaticLayer(LayerOf(state, id))) => fetches[id] <= 1

(***************************************************************************)
(* Unrecognized actions                                                    *)
(***************************************************************************)
\* a server event of the given type name about a job, or about none
EventsOfType(t) == { [ type |-> t, job_id |-> j ] : j \in issued \cup {Undefined} }

AddDatasetEvents ==
  { [ type |-> "add_dataset" ] } \cup { [ type |-> "add_dataset", dataset |-> d ] : d \in Datasets }

\* C30 (as claimed): in every reachable state the root reducer returns
\* without throwing for every action the connection manager makes from a
\* JSON object with a type field.
C30_Claim ==
  \A m \in AddDatasetEvents : ~appReducerThrows(state, formattedAction(m))

(***************************************************************************)
(* Superseded jobs                                                         *)
(***************************************************************************)
InSubscriptions(w, jobId) ==
  \E k \in DOMAIN w.activeSubscriptions : w.activeSubscriptions[k] = jobId

\* C31 (as claimed): when a job is started while an earlier job is still the
\* active job, the earlier job's channel leaves the active subscriptions,
\* an unsubscribe for it is sent on the open socket, and the new job's
\* channel is subscribed.
C31_Claim ==
  [][ (issued' # issued /\ Truthy(state.activeJobId))
        => /\ ~InSubscriptions(ws', state.activeJobId)
           /\ InSubscriptions(ws', state'.activeJobId)
           /\ safeSend(ws, sockets, [ type |-> "unsubscribe", channel |-> state.activeJobId ])
                = SelectSeq(out'.sent, LAMBDA x : x.message.type = "unsubscribe") ]_vars

(***************************************************************************)
(* Clearing the chat                                                       *)
(***************************************************************************)
\* actions.clearChat() reduced in state s
cleared(s) == appReducer(s, [ type |-> "CLEAR_CHAT" ])

withActiveJob(j) == [ state EXCEPT !.activeJobId = j ]

\* no assistant message of the active job: none is active, or none has its id
NoMessageOf(s) ==
  ~Truthy(s.activeJobId) \/ findLastJobMessage(s.messages, s.activeJobId) = -1

\* C33: a STATUS_UPDATE, CHAIN_OF_THOUGHT, ACTION or OBSERVATION action
\* reduced when activeJobId is null, or when no assistant message has the
\* active job's id, leaves the message list as it was.
C33_NoOrphanMessage ==
  \A j \in JobIds \cup {Null} :
    \A m \in FragmentMessages(JobIds) \cup StatusUpdateMessages(JobIds) :
      NoMessageOf(withActiveJob(j))
        => appReducer(withActiveJob(j), formattedAction(m)).messages = state.messages

\* a job has finished, its message is shown, no job is active, and a late
\* fragment of that job is reduced without touching the messages
C33_Witness ==
  /\ state.activeJobId = Null
  /\ findLastJobMessage(state.messages, "J1") # -1
  /\ \A m \in FragmentMessages({"J1"}) :
       appReducer(state, formattedAction(m)).messages = state.messages
  /\ NoMessageOf(withActiveJob("J2"))

(***************************************************************************)
(* The loading flag                                                        *)
(***************************************************************************)
\* C34 (as claimed): in every reachable state isAgentLoading is true exactly
\* when activeJobId is non-null.
C34_Claim == state.isAgentLoading <=> Truthy(state.activeJobId)

(***************************************************************************)
(* Completion without an active job                                        *)
(***************************************************************************)
\* C35 (as claimed): a JOB_COMPLETE reduced when activeJobId is null leaves
\* results and mapLayers as they were, and no registered layer has an id
\* made from a null job id.
C35_Claim ==
  /\ \A m \in JobCompleteMessages(issued) :
       ~Truthy(state.activeJobId)
         => /\ appReducer(state, formattedAction(m)).results = state.results
            /\ appReducer(state, formattedAction(m)).mapLayers = state.mapLayers
  /\ \A i \in 1..Len(state.mapLayers) :
       state.mapLayers[i].layerId \notin { Null \o "-" \o nm : nm \in LayerNames }

(***************************************************************************)
(* Overlapping submissions                                                 *)
(***************************************************************************)
\* C36 (as claimed): at most one submitted query is waiting for its job id.
C36_Claim == submitted - Cardinality(issued) <= 1

(***************************************************************************)
(* Deleting a dataset that is on the map                                   *)
(***************************************************************************)
\* C37 (as claimed): once a deletion has completed successfully, no map
\* layer has the deleted dataset's id, also when the layer was added while
\* the request was in flight.
C37_Claim ==
  [][ out'.ran = <<"handleRemove", "delete", "resolved">>
        => ~isLayerOnMap(state', out'.arg) ]_vars

(***************************************************************************)
(* The connection flag and the socket                                      *)
(***************************************************************************)
\* this.socket is an open socket
SocketIsOpen == ws.socket # 0 /\ sockets[ws.socket] = "OPEN"

\* every socket created so far is open or has had its close handled: no
\* open or close event is still to come for a socket in transition
NoSocketEventLeft == \A i \in DOMAIN sockets : sockets[i] \in {"OPEN", "CLOSED"}

\* C38 (as claimed): whenever a dispatcher is registered and no socket
\* event is left to process, the store's websocketConnected flag says
\* whether the socket is open.
C38_Claim ==
  (ws.registered /\ NoSocketEventLeft) => (state.websocketConnected <=> SocketIsOpen)

(***************************************************************************)
(* Reconnect timers                                                        *)
(***************************************************************************)
\* C39 (as claimed): at most one reconnect timer is pending, and while one
\* is pending a socket is created only by that timer firing, so never
\* before the delay scheduled at the most recent close has passed.
C39_Claim ==
  [][ /\ Cardinality(timers') <= 1
      /\ (Len(sockets') > Len(sockets) /\ timers # {}) => timers' # timers ]_vars

(***************************************************************************)
(* Transient fields                                                        *)
(***************************************************************************)
\* C40 (as claimed): the state the root reducer returned holds neither
\* _pendingDatasetUpdate nor _pendingLayersToAdd.
C40_Claim ==
  /\ state.pendingDatasetUpdate = None
  /\ state.pendingLayersToAdd = None

====
